---- MODULE Spec2Model ----
(***************************************************************************)
(* Model of bobot's message markup core (tg/markdown.rs): the murkdown     *)
(* lexer and grammar, the span resolver parse_tgspan and the MarkupBuilder *)
(* accumulator (text buffer, entity list, UTF-16 cursor); of the callback  *)
(* registries of TgClient (tg/client.rs); and of the admin cache refresh   *)
(* and the permission checks (tg/permissions.rs).                          *)
(*                                                                         *)
(* A Rust String is modelled as a sequence of characters, a character as   *)
(* a one-element TLA+ string; the character U+1F600 stands for every       *)
(* character outside the Basic Multilingual Plane and U+0060 is the        *)
(* backtick.  Option<T> is modelled as a sequence: <<>> is None and <<v>>  *)
(* is Some(v).                                                             *)
(***************************************************************************)
EXTENDS Integers, Sequences, FiniteSets, TLC

VARIABLES
    builder,    \* the MarkupBuilder: [text, entities, offset]
    op,         \* the operation that produced the current state, with its arguments
    calls,      \* number of builder operations performed so far
    pc,         \* position of the running call: "caller" (direct use of a builder,
                \* "moved" once build_owned has consumed it),
                \* or inside from_murkdown_internal "tokenize", "parse_tgspan",
                \* and returned "Ok" / "Err"
    input,      \* from_murkdown_internal's text argument
    message,    \* from_murkdown_internal's messsage argument: Option<&Message>
    tokenizer,  \* the Lexer: the characters not yet consumed
    parser,     \* the pomelo Parser: its stack of open constructs
    res,        \* the span list returned by parser.end_of_input(): None before
    frames,     \* the call stack of parse_tgspan, innermost call last
    result,     \* the value returned by from_murkdown_internal: None until it returns
    tokens,     \* the tokens a caller of Lexer::next_token alone has received
    suspended,  \* the locals of a second from_murkdown call that is not running
                \* now: None when there is no second call
    blocks,     \* from_markdown: the blocks of markdown::tokenize(text) not yet
                \* handed to parse_block
    button_events,  \* TgClient.button_events: DashMap of data -> SingleCb
    button_repeat,  \* TgClient.button_repeat: DashMap of data -> MultiCb
    tasks,      \* the tasks spawned by handle_update, each with its position
    registered, \* how many callbacks have been registered: the next one is
                \* callback number registered + 1
    fired,      \* the callback invocations made so far, in order
    redis,      \* REDIS: the chat's lock key "aclock:<chat>" and admin cache
                \* key "ca:<chat>", each None or a value with its expiry time
    tg,         \* Telegram: the chat's administrators and the number of
                \* getChatAdministrators requests it has received
    now,        \* the time, in minutes
    refreshing, \* the refresh_cached_admins calls made, each with its position
    CONFIG,     \* CONFIG.admin: sudo_users and support_users
    check       \* a check_permissions call: its arguments, locals and position

builderVars == <<builder, op, calls>>
murkdownVars == <<pc, input, message, tokenizer, parser, res, frames, result, tokens>>
clientVars == <<button_events, button_repeat, tasks, registered, fired>>
\* What the murkdown pipeline, a direct caller of the builder and the lexer
\* never touch.
adminVars == <<redis, tg, now, refreshing>>
permissionVars == <<CONFIG, check>>
foreignVars == <<suspended, blocks, clientVars, adminVars, permissionVars>>
vars ==
    <<builder, op, calls, pc, input, message, tokenizer, parser, res, frames, result,
      tokens, suspended, blocks, button_events, button_repeat, tasks, registered,
      fired, redis, tg, now, refreshing, CONFIG, check>>

\* No refresh of an admin cache and no permission check.
AdminIdle ==
    /\ redis = [aclock |-> <<>>, ca |-> <<>>]
    /\ tg = [administrators |-> {}, requests |-> 0]
    /\ now = 0
    /\ refreshing = <<>>
    /\ CONFIG = [sudo_users |-> {}, support_users |-> {}]
    /\ check = <<>>

\* No second call, no Markdown blocks, an empty callback registry, no
\* refresh and no permission check.
ForeignIdle ==
    /\ suspended = <<>>
    /\ blocks = <<>>
    /\ button_events = {}
    /\ button_repeat = {}
    /\ tasks = <<>>
    /\ registered = 0
    /\ fired = <<>>
    /\ AdminIdle

(***************************************************************************)
(* Bounds of the model.                                                    *)
(***************************************************************************)
MaxCalls == 2
MaxSourceLen == 3
MaxNodes == 2

(***************************************************************************)
(* Characters and UTF-16 length.                                           *)
(***************************************************************************)
Astral == {"U+1F600"}

\* Counting Unicode scalar values instead: str.chars().count().
len_scalar(c) == 1

\* char::len_utf16 as used by str::encode_utf16().count(): a character
\* outside the BMP is a surrogate pair.
len_utf16(c) == IF c \in Astral THEN 2 ELSE 1

RECURSIVE encode_utf16_count(_)
encode_utf16_count(str) ==
    IF str = <<>> THEN 0
    ELSE len_utf16(Head(str)) + encode_utf16_count(Tail(str))

None == <<>>
Some(v) == <<v>>
unwrap_or(o, d) == IF o = None THEN d ELSE o[1]

(***************************************************************************)
(* MessageEntity, as built by MessageEntityBuilder::new(offset, length)    *)
(* followed by the set_* calls and build().                                *)
(***************************************************************************)
MessageEntityBuilder_new(offset, length) ==
    [offset |-> offset, length |-> length, type |-> "",
     url |-> None, user |-> None, language |-> None, custom_emoji_id |-> None]

set_type(e, t) == [e EXCEPT !.type = t]
set_url(e, link) == [e EXCEPT !.url = Some(link)]
set_user(e, user) == [e EXCEPT !.user = Some(user)]
set_language(e, language) == [e EXCEPT !.language = Some(language)]
set_custom_emoji_id(e, id) == [e EXCEPT !.custom_emoji_id = Some(id)]

(***************************************************************************)
(* Markup and MarkupType.                                                  *)
(***************************************************************************)
PlainMarkupTypes ==
    {"Text", "StrikeThrough", "HashTag", "CashTag", "BotCommand", "Email",
     "PhoneNumber", "Bold", "Italic", "Underline", "Spoiler", "Code", "Mention"}

PayloadMarkupTypes == {"TextLink", "TextMention", "Pre", "CustomEmoji"}

\* A MarkupType value: the variant and, for the four payload variants, its payload.
MarkupType(variant, payload) == [variant |-> variant, payload |-> payload]

\* MarkupType::text
MarkupType_text(markup_type, t) ==
    [markup_type |-> markup_type, text |-> t, advance |-> None]

\* Markup::advance
advance(m, a) == [m EXCEPT !.advance = Some(a)]

\* Markup::get_type
get_type(m) ==
    CASE m.markup_type.variant = "Text" -> ""
      [] m.markup_type.variant = "TextMention" -> "text_mention"
      [] m.markup_type.variant = "TextLink" -> "text_link"
      [] m.markup_type.variant = "Pre" -> "pre"
      [] m.markup_type.variant = "CustomEmoji" -> "custom_emoji"
      [] m.markup_type.variant = "StrikeThrough" -> "strikethrough"
      [] m.markup_type.variant = "HashTag" -> "hashtag"
      [] m.markup_type.variant = "CashTag" -> "cashtag"
      [] m.markup_type.variant = "BotCommand" -> "botcommand"
      [] m.markup_type.variant = "Email" -> "email"
      [] m.markup_type.variant = "PhoneNumber" -> "phone_number"
      [] m.markup_type.variant = "Bold" -> "bold"
      [] m.markup_type.variant = "Italic" -> "italic"
      [] m.markup_type.variant = "Underline" -> "underline"
      [] m.markup_type.variant = "Spoiler" -> "spoiler"
      [] m.markup_type.variant = "Code" -> "code"
      [] m.markup_type.variant = "Mention" -> "mention"

get_text(m) == m.text

(***************************************************************************)
(* MarkupBuilder.  Every operation is a function from the builder before   *)
(* the call to the builder after it.                                       *)
(***************************************************************************)
new == [entities |-> <<>>, offset |-> 0, text |-> <<>>]

\* text() with the cursor advanced by the number of characters.
text_cursor_in_chars(b, t) ==
    [b EXCEPT !.text = @ \o t,
              !.offset = @ + Len(t)]

text(b, t) ==
    [b EXCEPT !.text = @ \o t,
              !.offset = @ + encode_utf16_count(t)]

\* manual() that drops the entity: the style leaves no trace.
manual_without_entity(b, entity_type, start, end) == b

\* manual() that puts the new entity at the front of the list, which would
\* keep an enclosing entity ahead of the entities of its children.
manual_entity_first(b, entity_type, start, end) ==
    [b EXCEPT !.entities =
        <<set_type(MessageEntityBuilder_new(start, end), entity_type)>> \o @]

manual(b, entity_type, start, end) ==
    [b EXCEPT !.entities =
        Append(@, set_type(MessageEntityBuilder_new(start, end), entity_type))]

\* regular() with the entity anchored after the cursor has advanced.
regular_anchor_after_advance(b, entity_type) ==
    LET n == encode_utf16_count(get_text(entity_type))
        adv == unwrap_or(entity_type.advance, n)
        entity == set_type(MessageEntityBuilder_new(b.offset + adv, n), get_type(entity_type))
    IN  [b EXCEPT !.text = @ \o get_text(entity_type),
                  !.offset = @ + adv,
                  !.entities = Append(@, entity)]

regular(b, entity_type) ==
    LET n == encode_utf16_count(get_text(entity_type))
        e0 == set_type(MessageEntityBuilder_new(b.offset, n), get_type(entity_type))
        mt == entity_type.markup_type
        entity ==
            CASE mt.variant = "TextLink" -> set_url(e0, mt.payload)
              [] mt.variant = "TextMention" -> set_user(e0, mt.payload)
              [] mt.variant = "Pre" -> set_language(e0, mt.payload)
              [] mt.variant = "CustomEmoji" -> set_custom_emoji_id(e0, mt.payload)
              [] OTHER -> e0
    IN  [b EXCEPT !.text = @ \o get_text(entity_type),
                  !.offset = @ + unwrap_or(entity_type.advance, n),
                  !.entities = Append(@, entity)]

\* text_link() with the override used as the entity's length too.
text_link_override_as_length(b, t, link, adv) ==
    LET n == encode_utf16_count(t)
        entity == set_url(set_type(MessageEntityBuilder_new(b.offset, unwrap_or(adv, n)),
                                   "text_link"), link)
    IN  [b EXCEPT !.offset = @ + unwrap_or(adv, n),
                  !.entities = Append(@, entity),
                  !.text = @ \o t]

text_link(b, t, link, adv) ==
    LET n == encode_utf16_count(t)
        entity == set_url(set_type(MessageEntityBuilder_new(b.offset, n), "text_link"), link)
    IN  [b EXCEPT !.offset = @ + unwrap_or(adv, n),
                  !.entities = Append(@, entity),
                  !.text = @ \o t]

\* text_mention() that appends the text and leaves out the entity.
text_mention_without_entity(b, t, mention, adv) == text(b, t)

text_mention(b, t, mention, adv) ==
    LET n == encode_utf16_count(t)
        entity == set_user(set_type(MessageEntityBuilder_new(b.offset, n), "text_mention"), mention)
    IN  [b EXCEPT !.offset = @ + unwrap_or(adv, n),
                  !.entities = Append(@, entity),
                  !.text = @ \o t]

pre(b, t, language, adv) ==
    LET n == encode_utf16_count(t)
        entity == set_language(set_type(MessageEntityBuilder_new(b.offset, n), "pre"), language)
    IN  [b EXCEPT !.offset = @ + unwrap_or(adv, n),
                  !.entities = Append(@, entity),
                  !.text = @ \o t]

custom_emoji(b, t, emoji_id, adv) ==
    LET n == encode_utf16_count(t)
        entity == set_custom_emoji_id(
                      set_type(MessageEntityBuilder_new(b.offset, n), "custom_emoji"), emoji_id)
    IN  [b EXCEPT !.offset = @ + unwrap_or(adv, n),
                  !.entities = Append(@, entity),
                  !.text = @ \o t]

strikethrough(b, t) == regular(b, MarkupType_text(MarkupType("StrikeThrough", None), t))
hashtag(b, t) == regular(b, MarkupType_text(MarkupType("HashTag", None), t))
cashtag(b, t) == regular(b, MarkupType_text(MarkupType("CashTag", None), t))
bot_command(b, t) == regular(b, MarkupType_text(MarkupType("BotCommand", None), t))
email(b, t) == regular(b, MarkupType_text(MarkupType("Email", None), t))
phone_number(b, t) == regular(b, MarkupType_text(MarkupType("PhoneNumber", None), t))
bold(b, t) == regular(b, MarkupType_text(MarkupType("Bold", None), t))
italic(b, t) == regular(b, MarkupType_text(MarkupType("Italic", None), t))
underline(b, t) == regular(b, MarkupType_text(MarkupType("Underline", None), t))
spoiler(b, t) == regular(b, MarkupType_text(MarkupType("Spoiler", None), t))

\* code() that marks the text as a pre block instead of inline code.
code_as_pre(b, t) == pre(b, t, None, None)

\* code() that appends the text and leaves out the entity.
code_without_entity(b, t) == text(b, t)

code(b, t) == regular(b, MarkupType_text(MarkupType("Code", None), t))
mention(b, t) == regular(b, MarkupType_text(MarkupType("Mention", None), t))

s(b) ==
    LET t == <<" ">>
        count == encode_utf16_count(t)
    IN  [b EXCEPT !.offset = @ + count,
                  !.text = @ \o t]

\* build() that hands out the shared empty list EMPTY_ENTITIES instead of
\* the builder's own entities.
build_empty_entities(b) == <<b.text, <<>>>>

\* build(&self) -> (&str, &Vec<MessageEntity>)
build(b) == <<b.text, b.entities>>

\* build_owned(self) -> (String, Vec<MessageEntity>)
build_owned(b) == <<b.text, b.entities>>

(***************************************************************************)
(* TgSpan: the span tree.                                                  *)
(***************************************************************************)
Code(t) == [kind |-> "Code", text |-> t]
Italic(spans) == [kind |-> "Italic", spans |-> spans]
Bold(spans) == [kind |-> "Bold", spans |-> spans]
Strikethrough(spans) == [kind |-> "Strikethrough", spans |-> spans]
Underline(spans) == [kind |-> "Underline", spans |-> spans]
Spoiler(spans) == [kind |-> "Spoiler", spans |-> spans]
Link(spans, link) == [kind |-> "Link", spans |-> spans, link |-> link]
Raw(t) == [kind |-> "Raw", text |-> t]
Filling(t) == [kind |-> "Filling", text |-> t]

StyleKinds == {"Italic", "Bold", "Strikethrough", "Underline", "Spoiler"}

(***************************************************************************)
(* Lexer.  A token is a marker or RawChar(c).                              *)
(***************************************************************************)
Token(k) == [k |-> k, c |-> ""]
RawChar(c) == [k |-> "RawChar", c |-> c]

\* The '\\' arm without the escape: the backslash itself is the literal and
\* the next character is lexed on its own.
next_token_escape_kept(rest) == [token |-> Some(RawChar("\\")), rest |-> rest]

\* The '\\' arm: self.0.next().map(|char| Token::RawChar(char)).
next_token_escape(rest) ==
    IF rest = <<>> THEN [token |-> None, rest |-> <<>>]
    ELSE [token |-> Some(RawChar(Head(rest))), rest |-> Tail(rest)]

\* The '_' arm without the peek: every '_' is an Underscore.
next_token_underscore_single(rest) == [token |-> Some(Token("Underscore")), rest |-> rest]

\* The '_' arm: peek for a second '_'.
next_token_underscore(rest) ==
    IF rest # <<>> /\ Head(rest) = "_"
    THEN [token |-> Some(Token("DoubleUnderscore")), rest |-> Tail(rest)]
    ELSE [token |-> Some(Token("Underscore")), rest |-> rest]

\* The arms of one character with the catch-all arm only.
next_token_single_literal(char) == RawChar(char)

\* The arms of one character: a marker of its own, or RawChar(char).
next_token_single(char) ==
    CASE char = "~" -> Token("Tilde")
      [] char = "U+0060" -> Token("Tick")
      [] char = "*" -> Token("Star")
      [] char = "[" -> Token("LSBracket")
      [] char = "]" -> Token("RSBracket")
      [] char = "(" -> Token("LParen")
      [] char = ")" -> Token("RParen")
      [] char = "{" -> Token("LCurly")
      [] char = "}" -> Token("RCurly")
      [] OTHER -> RawChar(char)

\* next_token() that peeks: the token of the first character is returned
\* and the character stays in the input.
next_token_peek(chars) ==
    IF chars = <<>> THEN [token |-> None, rest |-> <<>>]
    ELSE [token |-> Some(next_token_single(Head(chars))), rest |-> chars]

\* Lexer::next_token: the token returned and the characters left.  A lone
\* '|' is skipped by calling next_token again.
RECURSIVE next_token(_)
next_token(chars) ==
    IF chars = <<>> THEN [token |-> None, rest |-> <<>>]
    ELSE
        LET char == Head(chars)
            rest == Tail(chars)
        IN  CASE char = "\\" -> next_token_escape(rest)
              [] char = "_" -> next_token_underscore(rest)
              [] char = "|" ->
                    IF rest # <<>> /\ Head(rest) = "|"
                    THEN [token |-> Some(Token("DoubleBar")), rest |-> Tail(rest)]
                    ELSE next_token(rest)
              [] OTHER -> [token |-> Some(next_token_single(char)), rest |-> rest]

(***************************************************************************)
(* Parser.  The grammar is LALR(1) without conflicts, so the generated     *)
(* parser accepts exactly the grammar's language, builds the one parse     *)
(* tree and reports an error on the first token that cannot continue a     *)
(* sentence.  The parser state is the stack of constructs still open:      *)
(*   input                      the start symbol (bottom of the stack)     *)
(*   LSBracket                  '[' seen, nothing after it yet             *)
(*   Bold, Italic, Underline, Spoiler, Strikethrough, Link                 *)
(*                              '[' marker? seen, collecting main / words  *)
(*   Code                       '[' and a tick seen, collecting raw        *)
(*   Filling                    '{' seen, collecting raw                   *)
(*   LinkRSBracket              '[' main ']' seen, '(' must follow         *)
(*   LinkLParen                 '[' main ']' '(' seen, collecting raw      *)
(* Each entry carries the spans reduced so far (words) and the raw string  *)
(* being folded (raw).                                                     *)
(***************************************************************************)
Open(kind) == [kind |-> kind, spans |-> <<>>, raw |-> <<>>]

Parser_new == <<Open("input")>>

MainKinds == {"input", "Bold", "Italic", "Underline", "Spoiler", "Strikethrough", "Link"}

ParseOk(stack) == [ok |-> TRUE, stack |-> stack]
ParseErr == [ok |-> FALSE, stack |-> <<>>]

Top(stack) == stack[Len(stack)]
Pop(stack) == SubSeq(stack, 1, Len(stack) - 1)
SetTop(stack, e) == [stack EXCEPT ![Len(stack)] = e]

\* push_rawchar() without the fold raw ::= raw RawChar: every character
\* becomes a Raw span of its own.
push_rawchar_unfolded(spans, c) == Append(spans, Raw(<<c>>))

\* push_rawchar() with a wordraw that gives the trailing text to the word:
\* a character after a style word joins the spans of that word.
push_rawchar_absorbed(spans, c) ==
    IF spans # <<>> /\ spans[Len(spans)].kind \in StyleKinds
    THEN [spans EXCEPT ![Len(spans)].spans = Append(@, Raw(<<c>>))]
    ELSE IF spans # <<>> /\ spans[Len(spans)].kind = "Raw"
    THEN [spans EXCEPT ![Len(spans)] = Raw(@.text \o <<c>>)]
    ELSE Append(spans, Raw(<<c>>))

\* raw ::= RawChar | raw RawChar, and words ::= raw / wordraw ::= word raw:
\* a RawChar starts a Raw span or extends the Raw span that ends the list.
push_rawchar(spans, c) ==
    IF spans # <<>> /\ spans[Len(spans)].kind = "Raw"
    THEN [spans EXCEPT ![Len(spans)] = Raw(@.text \o <<c>>)]
    ELSE Append(spans, Raw(<<c>>))

\* reduce_word() for a grammar whose style words may not hold a word of their
\* own kind: a word closed directly inside an open construct of the same
\* kind is a syntax error.
reduce_word_no_same_kind(stack, word) ==
    LET below == Pop(stack)
        encl == Top(below)
    IN  IF encl.kind = word.kind THEN ParseErr
        ELSE ParseOk(SetTop(below, [encl EXCEPT !.spans = Append(@, word)]))

\* words ::= words word | word: the finished word joins the enclosing list.
reduce_word(stack, word) ==
    LET below == Pop(stack)
        encl == Top(below)
    IN  ParseOk(SetTop(below, [encl EXCEPT !.spans = Append(@, word)]))

\* parse_main() for a grammar that lets a marker stand for itself where it
\* cannot open or close anything: a style marker, parenthesis or closing
\* curly bracket in text position becomes literal text.
parse_main_marker_literal(stack, token) ==
    LET top == Top(stack)
        literal(k) ==
            CASE k = "Star" -> "*" [] k = "Tilde" -> "~" [] k = "Tick" -> "U+0060"
              [] k = "Underscore" -> "_" [] k = "DoubleUnderscore" -> "_"
              [] k = "DoubleBar" -> "|" [] k = "LParen" -> "("
              [] k = "RParen" -> ")" [] k = "RCurly" -> "}"
    IN  CASE token.k = "RawChar" ->
                ParseOk(SetTop(stack, [top EXCEPT !.spans = push_rawchar(@, token.c)]))
          [] token.k = "LCurly" -> ParseOk(Append(stack, Open("Filling")))
          [] token.k = "LSBracket" -> ParseOk(Append(stack, Open("LSBracket")))
          [] token.k = "RSBracket" ->
                CASE top.kind = "Bold" -> reduce_word(stack, Bold(top.spans))
                  [] top.kind = "Italic" -> reduce_word(stack, Italic(top.spans))
                  [] top.kind = "Underline" -> reduce_word(stack, Underline(top.spans))
                  [] top.kind = "Spoiler" -> reduce_word(stack, Spoiler(top.spans))
                  [] top.kind = "Strikethrough" ->
                        IF top.spans = <<>> THEN ParseErr
                        ELSE reduce_word(stack, Strikethrough(top.spans))
                  [] top.kind = "Link" ->
                        ParseOk(SetTop(stack, [top EXCEPT !.kind = "LinkRSBracket"]))
                  [] OTHER -> ParseErr
          [] OTHER ->
                ParseOk(SetTop(stack, [top EXCEPT !.spans = push_rawchar(@, literal(token.k))]))

\* A token in a position where main / words is being collected.
parse_main(stack, token) ==
    LET top == Top(stack)
    IN  CASE token.k = "RawChar" ->
                ParseOk(SetTop(stack, [top EXCEPT !.spans = push_rawchar(@, token.c)]))
          [] token.k = "LCurly" -> ParseOk(Append(stack, Open("Filling")))
          [] token.k = "LSBracket" -> ParseOk(Append(stack, Open("LSBracket")))
          [] token.k = "RSBracket" ->
                CASE top.kind = "Bold" -> reduce_word(stack, Bold(top.spans))
                  [] top.kind = "Italic" -> reduce_word(stack, Italic(top.spans))
                  [] top.kind = "Underline" -> reduce_word(stack, Underline(top.spans))
                  [] top.kind = "Spoiler" -> reduce_word(stack, Spoiler(top.spans))
                  [] top.kind = "Strikethrough" ->
                        IF top.spans = <<>> THEN ParseErr
                        ELSE reduce_word(stack, Strikethrough(top.spans))
                  [] top.kind = "Link" ->
                        ParseOk(SetTop(stack, [top EXCEPT !.kind = "LinkRSBracket"]))
                  [] OTHER -> ParseErr
          [] OTHER -> ParseErr

\* Parser::parse: feed one token.
parse(stack, token) ==
    LET top == Top(stack)
        become(kind) == ParseOk(SetTop(stack, Open(kind)))
    IN  CASE top.kind = "LSBracket" ->
                CASE token.k = "Tick" -> become("Code")
                  [] token.k = "Star" -> become("Bold")
                  [] token.k = "Tilde" -> become("Strikethrough")
                  [] token.k = "Underscore" -> become("Italic")
                  [] token.k = "DoubleUnderscore" -> become("Underline")
                  [] token.k = "DoubleBar" -> become("Spoiler")
                  [] OTHER -> parse_main(SetTop(stack, Open("Link")), token)
          [] top.kind \in MainKinds -> parse_main(stack, token)
          [] top.kind = "Code" ->
                CASE token.k = "RawChar" ->
                        ParseOk(SetTop(stack, [top EXCEPT !.raw = @ \o <<token.c>>]))
                  [] token.k = "RSBracket" /\ top.raw # <<>> ->
                        reduce_word(stack, Code(top.raw))
                  [] OTHER -> ParseErr
          [] top.kind = "Filling" ->
                CASE token.k = "RawChar" ->
                        ParseOk(SetTop(stack, [top EXCEPT !.raw = @ \o <<token.c>>]))
                  [] token.k = "RCurly" /\ top.raw # <<>> ->
                        reduce_word(stack, Filling(top.raw))
                  [] OTHER -> ParseErr
          [] top.kind = "LinkRSBracket" ->
                IF token.k = "LParen"
                THEN ParseOk(SetTop(stack, [top EXCEPT !.kind = "LinkLParen"]))
                ELSE ParseErr
          [] top.kind = "LinkLParen" ->
                CASE token.k = "RawChar" ->
                        ParseOk(SetTop(stack, [top EXCEPT !.raw = @ \o <<token.c>>]))
                  [] token.k = "RParen" /\ top.raw # <<>> ->
                        reduce_word(stack, Link(top.spans, top.raw))
                  [] OTHER -> ParseErr

\* end_of_input() that hands out whatever the start symbol has collected,
\* open constructs or not: a best-effort partial tree.
end_of_input_partial(stack) == [ok |-> TRUE, res |-> stack[1].spans]

\* end_of_input() for a grammar with main ::= words, without the '?'.
end_of_input_words(stack) ==
    IF Len(stack) = 1 /\ stack[1].kind = "input" /\ stack[1].spans # <<>>
    THEN [ok |-> TRUE, res |-> stack[1].spans]
    ELSE [ok |-> FALSE, res |-> <<>>]

\* Parser::end_of_input: input ::= main, main ::= words?
end_of_input(stack) ==
    IF Len(stack) = 1 /\ Top(stack).kind = "input"
    THEN [ok |-> TRUE, res |-> Top(stack).spans]
    ELSE [ok |-> FALSE, res |-> <<>>]

(***************************************************************************)
(* Message context: the getters of botapi's Message, User and Chat that    *)
(* parse_tgspan uses.                                                      *)
(***************************************************************************)
get_from(msg) == msg.from
get_chat(msg) == msg.chat
get_first_name(user) == user.first_name
get_last_name(user) == user.last_name
get_id(user) == user.id

\* Username::name_humanreadable (tg/user.rs): the display name of a user or chat.
name_humanreadable(x) == x.name_humanreadable

\* i64::to_string for the decimal digits of an id.
Digit(d) == <<"0", "1", "2", "3", "4", "5", "6", "7", "8", "9">>[d + 1]

RECURSIVE to_string(_)
to_string(i) ==
    IF i < 0 THEN <<"-">> \o to_string(0 - i)
    ELSE IF i < 10 THEN <<Digit(i)>>
    ELSE to_string(i \div 10) \o <<Digit(i % 10)>>

\* A format string without the escaped braces: format!("{}", s).
format_braces_name_only(str) == str

\* format!("{{{}}}", s)
format_braces(str) == <<"{">> \o str \o <<"}">>

(***************************************************************************)
(* parse_tgspan.  One call is a frame [span, size, arm, link, entry]:      *)
(* span is the part of the Vec<TgSpan> the for loop has not visited yet,   *)
(* size the local accumulator, arm the match arm of the caller that waits  *)
(* for this call ("root" for the call made by from_murkdown_internal),     *)
(* link the url of a waiting Link arm, and entry the cursor when the call  *)
(* began (recorded for the properties; the code does not keep it).         *)
(***************************************************************************)
Frame(span, arm, link, entry) ==
    [span |-> span, size |-> 0, arm |-> arm, link |-> link, entry |-> entry]

Step(b, size) == [builder |-> b, size |-> size]

\* The Filling arms for a context message in which a placeholder that needs
\* the sender degrades to its literal text when the message has no sender.
parse_tgspan_filling_degrade(b, size, filling, msg) ==
    CASE filling = <<"u", "s", "e", "r", "n", "a", "m", "e">> ->
            IF get_from(msg) # None
            THEN LET user == get_from(msg)[1]
                     name == name_humanreadable(user)
                 IN  Step(text_mention(b, name, user, None), size + encode_utf16_count(name))
            ELSE Step(text(b, format_braces(filling)),
                      size + encode_utf16_count(format_braces(filling)))
      [] filling = <<"f", "i", "r", "s", "t">> ->
            IF get_from(msg) # None
            THEN LET first == get_first_name(get_from(msg)[1])
                 IN  Step(text(b, first), size + encode_utf16_count(first))
            ELSE Step(text(b, format_braces(filling)),
                      size + encode_utf16_count(format_braces(filling)))
      [] filling = <<"l", "a", "s", "t">> ->
            IF get_from(msg) # None
            THEN LET last == unwrap_or(get_last_name(get_from(msg)[1]), <<>>)
                 IN  Step(text(b, last), size + encode_utf16_count(last))
            ELSE Step(text(b, format_braces(filling)),
                      size + encode_utf16_count(format_braces(filling)))
      [] filling = <<"m", "e", "n", "t", "i", "o", "n">> ->
            IF get_from(msg) # None
            THEN LET user == get_from(msg)[1]
                     first == get_first_name(user)
                 IN  Step(text_mention(b, first, user, None), size + encode_utf16_count(first))
            ELSE Step(text(b, format_braces(filling)),
                      size + encode_utf16_count(format_braces(filling)))
      [] filling = <<"c", "h", "a", "t", "n", "a", "m", "e">> ->
            LET chat == name_humanreadable(get_chat(msg))
            IN  Step(text(b, chat), size + encode_utf16_count(chat))
      [] filling = <<"i", "d">> ->
            IF get_from(msg) # None
            THEN LET id == to_string(get_id(get_from(msg)[1]))
                 IN  Step(text(b, id), size + encode_utf16_count(id))
            ELSE Step(text(b, format_braces(filling)),
                      size + encode_utf16_count(format_braces(filling)))
      [] OTHER ->
            LET str == format_braces(filling)
            IN  Step(text(b, str), size + encode_utf16_count(str))

\* The (TgSpan::Filling(filling), Some(message)) arm.
parse_tgspan_filling_message(b, size, filling, msg) ==
    CASE filling = <<"u", "s", "e", "r", "n", "a", "m", "e">> ->
            IF get_from(msg) # None
            THEN LET user == get_from(msg)[1]
                     name == name_humanreadable(user)
                 IN  Step(text_mention(b, name, user, None), size + encode_utf16_count(name))
            ELSE Step(b, size)
      [] filling = <<"f", "i", "r", "s", "t">> ->
            IF get_from(msg) # None
            THEN LET first == get_first_name(get_from(msg)[1])
                 IN  Step(text(b, first), size + encode_utf16_count(first))
            ELSE Step(b, size)
      [] filling = <<"l", "a", "s", "t">> ->
            IF get_from(msg) # None
            THEN LET last == unwrap_or(get_last_name(get_from(msg)[1]), <<>>)
                 IN  Step(text(b, last), size + encode_utf16_count(last))
            ELSE Step(b, size)
      [] filling = <<"m", "e", "n", "t", "i", "o", "n">> ->
            IF get_from(msg) # None
            THEN LET user == get_from(msg)[1]
                     first == get_first_name(user)
                 IN  Step(text_mention(b, first, user, None), size + encode_utf16_count(first))
            ELSE Step(b, size)
      [] filling = <<"c", "h", "a", "t", "n", "a", "m", "e">> ->
            LET chat == name_humanreadable(get_chat(msg))
            IN  Step(text(b, chat), size + encode_utf16_count(chat))
      [] filling = <<"i", "d">> ->
            IF get_from(msg) # None
            THEN LET id == to_string(get_id(get_from(msg)[1]))
                 IN  Step(text(b, id), size + encode_utf16_count(id))
            ELSE Step(b, size)
      [] OTHER ->
            LET str == format_braces(filling)
            IN  Step(text(b, str), size + encode_utf16_count(str))

\* The arms of parse_tgspan's match that make no recursive call:
\* Code, Raw and Filling.
parse_tgspan_leaf(b, size, span, msg) ==
    CASE span.kind = "Code" -> Step(code(b, span.text), size)
      [] span.kind = "Raw" ->
            Step(text(b, span.text), size + encode_utf16_count(span.text))
      [] span.kind = "Filling" /\ msg # None ->
            parse_tgspan_filling_message(b, size, span.text, msg[1])
      [] span.kind = "Filling" /\ msg = None ->
            LET str == format_braces(span.text)
            IN  Step(text(b, str), size + encode_utf16_count(str))

\* The end of parse_tgspan without the subtraction: the range starts at the
\* cursor after the children.
parse_tgspan_return_cursor(b, size) == <<b.offset, size>>

\* The end of parse_tgspan: let offset = self.offset - size; (offset, size)
parse_tgspan_return(b, size) ==
    LET offset == b.offset - size
    IN  <<offset, size>>

\* The rest of a style or Link arm once its recursive call has returned
\* (s, e): size += e, then one entity over (s, e).
\* The waiting arms of parse_tgspan when a node without text is dropped
\* instead of being given a zero-length entity.
parse_tgspan_wrap_skip_empty(b, size, arm, link, se) ==
    LET start == se[1]
        e == se[2]
    IN  IF e = 0 THEN Step(b, size)
        ELSE IF arm = "Link"
        THEN Step([b EXCEPT !.entities =
                      Append(@, set_url(set_type(MessageEntityBuilder_new(start, e),
                                                 "text_link"), link))], size + e)
        ELSE Step(manual(b, CASE arm = "Italic" -> "italic"
                              [] arm = "Bold" -> "bold"
                              [] arm = "Strikethrough" -> "strikethrough"
                              [] arm = "Underline" -> "underline"
                              [] arm = "Spoiler" -> "spoiler", start, e), size + e)

parse_tgspan_wrap(b, size, arm, link, se) ==
    LET start == se[1]
        e == se[2]
    IN  CASE arm = "Italic" -> Step(manual(b, "italic", start, e), size + e)
          [] arm = "Bold" -> Step(manual(b, "bold", start, e), size + e)
          [] arm = "Strikethrough" -> Step(manual(b, "strikethrough", start, e), size + e)
          [] arm = "Underline" -> Step(manual(b, "underline", start, e), size + e)
          [] arm = "Spoiler" -> Step(manual(b, "spoiler", start, e), size + e)
          [] arm = "Link" ->
                LET entity == set_url(set_type(MessageEntityBuilder_new(start, e),
                                               "text_link"), link)
                IN  Step([b EXCEPT !.entities = Append(@, entity)], size + e)

(***************************************************************************)
(* from_murkdown_internal, step by step.                                   *)
(***************************************************************************)
Ok(v) == [ok |-> TRUE, value |-> v]
Err(e) == [ok |-> FALSE, value |-> e]

\* parser.parse(token)? and parser.end_of_input()? fail with DefaultParseErr,
\* which the ? converts into BotError::MurkdownError.
MurkdownError == "MurkdownError"

ReturnErr ==
    /\ pc' = "Err"
    /\ result' = Some(Err(MurkdownError))
    /\ tokenizer' = <<>>
    /\ parser' = <<>>
    /\ UNCHANGED <<builder, res, frames>>

\* One iteration of: while let Some(token) = tokenizer.next_token() { parser.parse(token)?; }
Tokenize ==
    /\ pc = "tokenize"
    /\ LET nt == next_token(tokenizer)
       IN  /\ nt.token # None
           /\ LET r == parse(parser, nt.token[1])
              IN  IF r.ok
                  THEN /\ tokenizer' = nt.rest
                       /\ parser' = r.stack
                       /\ UNCHANGED <<pc, result, builder, res, frames>>
                  ELSE ReturnErr
    /\ UNCHANGED <<foreignVars, tokens, op, calls, input, message>>

\* next_token() returns None: the loop ends, parser.end_of_input()? and the
\* call s.parse_tgspan(res, messsage) begins.
EndOfInput ==
    /\ pc = "tokenize"
    /\ LET nt == next_token(tokenizer)
       IN  /\ nt.token = None
           /\ LET r == end_of_input(parser)
              IN  IF r.ok
                  THEN /\ pc' = "parse_tgspan"
                       /\ tokenizer' = nt.rest
                       /\ parser' = <<>>
                       /\ res' = Some(r.res)
                       /\ frames' = <<Frame(r.res, "root", <<>>, builder.offset)>>
                       /\ UNCHANGED <<result, builder>>
                  ELSE ReturnErr
    /\ UNCHANGED <<foreignVars, tokens, op, calls, input, message>>

LeafKinds == {"Code", "Raw", "Filling"}

\* One iteration of parse_tgspan's for loop on a Code, Raw or Filling span.
ParseTgspanLeaf ==
    /\ pc = "parse_tgspan"
    /\ LET f == Top(frames)
       IN  /\ f.span # <<>>
           /\ Head(f.span).kind \in LeafKinds
           /\ LET r == parse_tgspan_leaf(builder, f.size, Head(f.span), message)
              IN  /\ builder' = r.builder
                  /\ frames' = SetTop(frames, [f EXCEPT !.span = Tail(@), !.size = r.size])
    /\ UNCHANGED <<foreignVars, tokens, op, calls, pc, input, message, tokenizer, parser, res, result>>

\* A style or Link arm makes its recursive call self.parse_tgspan(s, message).
ParseTgspanCall ==
    /\ pc = "parse_tgspan"
    /\ LET f == Top(frames)
       IN  /\ f.span # <<>>
           /\ Head(f.span).kind \notin LeafKinds
           /\ LET span == Head(f.span)
                  link == IF span.kind = "Link" THEN span.link ELSE <<>>
              IN  frames' = Append(SetTop(frames, [f EXCEPT !.span = Tail(@)]),
                                   Frame(span.spans, span.kind, link, builder.offset))
    /\ UNCHANGED <<foreignVars, tokens, op, calls, pc, input, message, tokenizer, parser, res, result, builder>>

\* A recursive call returns (offset, size) and the waiting arm finishes.
ParseTgspanReturn ==
    /\ pc = "parse_tgspan"
    /\ Len(frames) > 1
    /\ LET f == Top(frames)
           caller == Top(Pop(frames))
       IN  /\ f.span = <<>>
           /\ LET r == parse_tgspan_wrap(builder, caller.size, f.arm, f.link,
                                         parse_tgspan_return(builder, f.size))
              IN  /\ builder' = r.builder
                  /\ frames' = SetTop(Pop(frames), [caller EXCEPT !.size = r.size])
    /\ UNCHANGED <<foreignVars, tokens, op, calls, pc, input, message, tokenizer, parser, res, result>>

\* The outermost parse_tgspan returns and from_murkdown_internal returns Ok(s).
ReturnOk ==
    /\ pc = "parse_tgspan"
    /\ Len(frames) = 1
    /\ Top(frames).span = <<>>
    /\ pc' = "Ok"
    /\ frames' = <<>>
    /\ result' = Some(Ok(builder))
    /\ UNCHANGED <<foreignVars, tokens, op, calls, input, message, tokenizer, parser, res, builder>>

(***************************************************************************)
(* Direct use of the builder: any caller may apply any public operation    *)
(* to a builder it owns.  Arguments are drawn from small sets.             *)
(***************************************************************************)
ArgTexts == {<<"a">>, <<"U+1F600">>}
AdvanceArgs == {None, Some(-1), Some(3)}
Links == {<<"u">>}
Languages == {<<"r">>}
EmojiIds == {<<"7">>}
Users ==
    {[id |-> 42, first_name |-> <<"A", "U+1F600">>, last_name |-> Some(<<"d">>),
      name_humanreadable |-> <<"@", "a">>]}

\* The Markup values handed to regular() directly; the other variants reach
\* regular() through their wrappers.
DirectMarkupTypes ==
    {MarkupType("Text", None), MarkupType("Bold", None)}
    \cup {MarkupType("TextLink", l) : l \in Links}
    \cup {MarkupType("TextMention", u) : u \in Users}
    \cup {MarkupType("Pre", l) : l \in Languages}
    \cup {MarkupType("CustomEmoji", i) : i \in EmojiIds}

NoOp == [name |-> "new", text |-> <<>>, advance |-> None]

CanCall == pc = "caller" /\ calls < MaxCalls

Call(name, t, adv, b) ==
    /\ CanCall
    /\ builder' = b
    /\ op' = [name |-> name, text |-> t, advance |-> adv]
    /\ calls' = calls + 1
    /\ UNCHANGED <<murkdownVars, foreignVars>>

CallText ==
    /\ CanCall
    /\ \E t \in ArgTexts : Call("text", t, None, text(builder, t))
CallS == Call("s", <<" ">>, None, s(builder))
CallRegular ==
    /\ CanCall
    /\ \E mt \in DirectMarkupTypes, t \in ArgTexts, a \in AdvanceArgs :
        LET m == IF a = None THEN MarkupType_text(mt, t)
                 ELSE advance(MarkupType_text(mt, t), a[1])
        IN  Call("regular", t, a, regular(builder, m))
CallTextLink ==
    /\ CanCall
    /\ \E t \in ArgTexts, l \in Links, a \in AdvanceArgs :
        Call("text_link", t, a, text_link(builder, t, l, a))
CallTextMention ==
    /\ CanCall
    /\ \E t \in ArgTexts, u \in Users, a \in AdvanceArgs :
        Call("text_mention", t, a, text_mention(builder, t, u, a))
CallPre ==
    /\ CanCall
    /\ \E t \in ArgTexts, l \in Languages, a \in AdvanceArgs :
        Call("pre", t, a, pre(builder, t, l, a))
CallCustomEmoji ==
    /\ CanCall
    /\ \E t \in ArgTexts, i \in EmojiIds, a \in AdvanceArgs :
        Call("custom_emoji", t, a, custom_emoji(builder, t, i, a))
CallStrikethrough ==
    /\ CanCall
    /\ \E t \in ArgTexts : Call("strikethrough", t, None, strikethrough(builder, t))
CallHashtag ==
    /\ CanCall
    /\ \E t \in ArgTexts : Call("hashtag", t, None, hashtag(builder, t))
CallCashtag ==
    /\ CanCall
    /\ \E t \in ArgTexts : Call("cashtag", t, None, cashtag(builder, t))
CallBotCommand ==
    /\ CanCall
    /\ \E t \in ArgTexts : Call("bot_command", t, None, bot_command(builder, t))
CallEmail ==
    /\ CanCall
    /\ \E t \in ArgTexts : Call("email", t, None, email(builder, t))
CallPhoneNumber ==
    /\ CanCall
    /\ \E t \in ArgTexts : Call("phone_number", t, None, phone_number(builder, t))
CallBold ==
    /\ CanCall
    /\ \E t \in ArgTexts : Call("bold", t, None, bold(builder, t))
CallItalic ==
    /\ CanCall
    /\ \E t \in ArgTexts : Call("italic", t, None, italic(builder, t))
CallUnderline ==
    /\ CanCall
    /\ \E t \in ArgTexts : Call("underline", t, None, underline(builder, t))
CallSpoiler ==
    /\ CanCall
    /\ \E t \in ArgTexts : Call("spoiler", t, None, spoiler(builder, t))
CallCode ==
    /\ CanCall
    /\ \E t \in ArgTexts : Call("code", t, None, code(builder, t))
CallMention ==
    /\ CanCall
    /\ \E t \in ArgTexts : Call("mention", t, None, mention(builder, t))

\* How many times the terminal operations are called on top of the appends.
MaxBuilds == 2

\* build() borrows the builder: the caller gets the pair and keeps the builder.
CallBuild ==
    /\ pc = "caller"
    /\ calls < MaxCalls + MaxBuilds
    /\ result' = Some(build(builder))
    /\ op' = [name |-> "build", text |-> <<>>, advance |-> None]
    /\ calls' = calls + 1
    /\ UNCHANGED <<builder, pc, input, message, tokenizer, parser, res, frames, tokens,
                   foreignVars>>

\* build_owned() consumes the builder: no operation can follow it.
CallBuildOwned ==
    /\ pc = "caller"
    /\ calls < MaxCalls + MaxBuilds
    /\ result' = Some(build_owned(builder))
    /\ op' = [name |-> "build_owned", text |-> <<>>, advance |-> None]
    /\ calls' = calls + 1
    /\ pc' = "moved"
    /\ UNCHANGED <<builder, input, message, tokenizer, parser, res, frames, tokens,
                   foreignVars>>

BuilderInit ==
    /\ builder = new
    /\ op = NoOp
    /\ calls = 0
    /\ pc = "caller"
    /\ input = <<>>
    /\ message = None
    /\ tokenizer = <<>>
    /\ parser = <<>>
    /\ res = None
    /\ frames = <<>>
    /\ result = None
    /\ tokens = <<>>
    /\ ForeignIdle

BuilderNext ==
    \/ CallText \/ CallS \/ CallRegular
    \/ CallTextLink \/ CallTextMention \/ CallPre \/ CallCustomEmoji
    \/ CallStrikethrough \/ CallHashtag \/ CallCashtag \/ CallBotCommand
    \/ CallEmail \/ CallPhoneNumber \/ CallBold \/ CallItalic
    \/ CallUnderline \/ CallSpoiler \/ CallCode \/ CallMention
    \/ CallBuild \/ CallBuildOwned

SpecBuilder == BuilderInit /\ [][BuilderNext]_vars

(***************************************************************************)
(* Inputs of from_murkdown / from_murkdown_message.                        *)
(***************************************************************************)
\* Every character class the lexer distinguishes, one plain BMP character
\* and one character outside the BMP.
Alphabet ==
    {"a", "U+1F600", "\\", "_", "|", "~", "U+0060", "*", "[", "]", "(", ")", "{", "}"}

RECURSIVE Strings(_, _)
Strings(chars, n) ==
    IF n = 0 THEN {<<>>}
    ELSE LET shorter == Strings(chars, n - 1)
         IN  shorter \cup {Append(str, c) : str \in {x \in shorter : Len(x) = n - 1}, c \in chars}

\* All sources of at most MaxSourceLen characters.
ShortSources == Strings(Alphabet, MaxSourceLen)

\* Span trees of at most MaxNodes nodes over a few leaves, and the sources
\* that spell them.
LeafSpans == {Raw(<<"U+1F600">>), Code(<<"a">>), Filling(<<"i", "d">>)}

Node(kind, spans) ==
    IF kind = "Link" THEN Link(spans, <<"u">>) ELSE [kind |-> kind, spans |-> spans]

RECURSIVE SpansTable(_)
\* <<S(0), ..., S(n)>>, S(m) being the span lists with exactly m nodes that
\* the grammar can produce: raw text is folded into one Raw span, and
\* Strikethrough takes words, not main.
SpansTable(n) ==
    IF n = 0 THEN <<{<<>>}>>
    ELSE LET table == SpansTable(n - 1)
             first(k) ==
                (IF k = 1 THEN LeafSpans ELSE {})
                \cup UNION {
                        {Node(kind, sub) :
                            sub \in {x \in table[k] : kind = "Strikethrough" => x # <<>>}}
                        : kind \in StyleKinds \cup {"Link"}}
             follows(t, rest) ==
                t.kind = "Raw" => (rest = <<>> \/ rest[1].kind # "Raw")
         IN  Append(table,
                    UNION {
                        UNION {
                            {<<t>> \o rest :
                                rest \in {x \in table[n - k + 1] : follows(t, x)}}
                            : t \in first(k)}
                        : k \in 1..n})

SpansOfSize(n) == SpansTable(n)[n + 1]

RECURSIVE Unparse(_)
\* The murkdown source of a span list (no character here needs an escape).
Unparse(spans) ==
    IF spans = <<>> THEN <<>>
    ELSE LET sp == Head(spans)
             one ==
                CASE sp.kind = "Raw" -> sp.text
                  [] sp.kind = "Code" -> <<"[", "U+0060">> \o sp.text \o <<"]">>
                  [] sp.kind = "Filling" -> <<"{">> \o sp.text \o <<"}">>
                  [] sp.kind = "Bold" -> <<"[", "*">> \o Unparse(sp.spans) \o <<"]">>
                  [] sp.kind = "Italic" -> <<"[", "_">> \o Unparse(sp.spans) \o <<"]">>
                  [] sp.kind = "Underline" -> <<"[", "_", "_">> \o Unparse(sp.spans) \o <<"]">>
                  [] sp.kind = "Spoiler" -> <<"[", "|", "|">> \o Unparse(sp.spans) \o <<"]">>
                  [] sp.kind = "Strikethrough" -> <<"[", "~">> \o Unparse(sp.spans) \o <<"]">>
                  [] sp.kind = "Link" ->
                        <<"[">> \o Unparse(sp.spans) \o <<"]", "(">> \o sp.link \o <<")">>
         IN  one \o Unparse(Tail(spans))

TreeSources ==
    LET table == SpansTable(MaxNodes)
    IN  {Unparse(spans) : spans \in UNION {table[n + 1] : n \in 0..MaxNodes}}

\* The sources of the tests of tg/markdown.rs and of the specification.
MARKDOWN_SIMPLE == <<"[", "*", "b", "o", "l", "d", "]">>
NESTED_BOLD ==
    <<"[", "*", "[", "*", "b", "o", "l", "d", "]", " ", "[", "*", "b", "o", "l", "d", "]", "]">>
EMPTY == <<>>
RAW == <<"t", "h", "i", "n", "g">>
ESCAPE == <<"\\", "[", " ", "t", "h", "i", "n", "g">>
UNTERMINATED == <<"[", "*", "u", "n", "t", "e", "r", "m", "i", "n", "a", "t", "e", "d">>

MARKDOWN_TEST ==
    <<"w", "h", "a", "t", "\n", " ", " ", " ", " ", " ", " ", " ", " ", "[",
      "*", "b", "o", "l", "d", "]", "\n", " ", " ", " ", " ", " ", " ", " ",
      " ", "t", "h", "i", "n", "g", "\n", " ", " ", " ", " ", " ", " ", " ",
      " ", "[", "c", "o", "i", "n", "s", "c", "a", "m", "]", "(", "h", "t",
      "t", "p", ":", "/", "/", "c", "o", "i", "n", "s", "c", "a", "m", ".",
      "o", "r", "g", ")", "\n", " ", " ", " ", " ", " ", " ", " ", " ">>

\* A code span whose content spells markup: [ tick \* a ].
CODE_ESCAPED == <<"[", "U+0060", "\\", "*", "a", "]">>

\* The placeholder names parse_tgspan recognizes, and their sources.
FillingNames ==
    {<<"u", "s", "e", "r", "n", "a", "m", "e">>, <<"f", "i", "r", "s", "t">>,
     <<"l", "a", "s", "t">>, <<"m", "e", "n", "t", "i", "o", "n">>,
     <<"c", "h", "a", "t", "n", "a", "m", "e">>, <<"i", "d">>}
FillingSources == {<<"{">> \o name \o <<"}">> : name \in FillingNames}

\* Plain text in front of one bold word, with characters inside and outside
\* the BMP on both sides: prefix + "[*" + t + "]".
PrefixedBoldSources ==
    LET plain == {<<"a">>, <<"U+1F600">>, <<"a", "U+1F600">>, <<"U+1F600", "U+1F600">>}
    IN  {prefix \o <<"[", "*">> \o t \o <<"]">> : prefix \in plain, t \in plain}

TestSources ==
    {MARKDOWN_SIMPLE, NESTED_BOLD, EMPTY, RAW, ESCAPE, UNTERMINATED, MARKDOWN_TEST,
     CODE_ESCAPED}
    \cup FillingSources
    \cup PrefixedBoldSources
    \cup {<<"[", "a", "]", "(", "a", "_", "a", ")">>, <<"[", "a", "]", "a">>}

Sources == ShortSources \cup TreeSources \cup TestSources

Chats == {[name_humanreadable |-> <<"c">>]}
\* The senders of the context message: a user with a last name and one
\* without.
Senders ==
    Users
    \cup {[id |-> 7, first_name |-> <<"B">>, last_name |-> None,
           name_humanreadable |-> <<"B">>]}
\* A message has a sender or none (get_from() is an Option).
Messages ==
    {[from |-> f, chat |-> c] : f \in {None} \cup {Some(u) : u \in Senders}, c \in Chats}

\* from_murkdown passes None, from_murkdown_message passes Some(message).
MessageArgs == {None} \cup {Some(m) : m \in Messages}

\* The message is read by the Filling arms only, so from_murkdown_message is
\* run on the sources that hold a '{': with every message on the short
\* sources and the single placeholders, with one message that has a sender
\* on the longer ones.
MessageArgsFor(source) ==
    IF \A i \in 1..Len(source) : source[i] # "{" THEN {None}
    ELSE IF Len(source) <= MaxSourceLen \/ source \in FillingSources THEN MessageArgs
    ELSE {None} \cup {Some([from |-> Some(u), chat |-> c]) : u \in Users, c \in Chats}

\* The state after the first four statements of from_murkdown_internal.
Init ==
    /\ input \in Sources
    /\ message \in MessageArgsFor(input)
    /\ res = None
    /\ builder = new
    /\ parser = Parser_new
    /\ tokenizer = input
    /\ pc = "tokenize"
    /\ frames = <<>>
    /\ result = None
    /\ op = NoOp
    /\ calls = 0
    /\ tokens = <<>>
    /\ ForeignIdle

Next ==
    \/ Tokenize
    \/ EndOfInput
    \/ ParseTgspanLeaf
    \/ ParseTgspanCall
    \/ ParseTgspanReturn
    \/ ReturnOk

Spec == Init /\ [][Next]_vars

\* from_murkdown_internal is one sequential call: the thread that runs it
\* takes the next step of the loop or of the resolver whenever there is one.
SpecFair == Spec /\ WF_vars(Next)

(***************************************************************************)
(* from_murkdown_internal as one function of its arguments: the value a    *)
(* call returns when nothing else runs.                                    *)
(***************************************************************************)
\* while let Some(token) = tokenizer.next_token() { parser.parse(token)?; }
RECURSIVE parse_loop(_, _)
parse_loop(chars, stack) ==
    LET nt == next_token(chars)
    IN  IF nt.token = None THEN ParseOk(stack)
        ELSE LET r == parse(stack, nt.token[1])
             IN  IF r.ok THEN parse_loop(nt.rest, r.stack) ELSE ParseErr

\* parse_tgspan's for loop over the rest of a span list, with the local
\* accumulator size; a style or Link arm runs the loop on its children from
\* size 0 and finishes with the pair that call returns.
RECURSIVE parse_tgspan(_, _, _, _)
parse_tgspan(b, size, span, msg) ==
    IF span = <<>> THEN Step(b, size)
    ELSE LET head == Head(span)
         IN  IF head.kind \in LeafKinds
             THEN LET r == parse_tgspan_leaf(b, size, head, msg)
                  IN  parse_tgspan(r.builder, r.size, Tail(span), msg)
             ELSE LET inner == parse_tgspan(b, 0, head.spans, msg)
                      link == IF head.kind = "Link" THEN head.link ELSE <<>>
                      r == parse_tgspan_wrap(inner.builder, size, head.kind, link,
                                             parse_tgspan_return(inner.builder, inner.size))
                  IN  parse_tgspan(r.builder, r.size, Tail(span), msg)

from_murkdown_internal(text_, messsage) ==
    LET parsed == parse_loop(text_, Parser_new)
        ended == end_of_input(parsed.stack)
    IN  IF ~parsed.ok THEN Err(MurkdownError)
        ELSE IF ~ended.ok THEN Err(MurkdownError)
        ELSE Ok(parse_tgspan(new, 0, ended.res, messsage).builder)

(***************************************************************************)
(* Two calls of from_murkdown_internal whose steps interleave.  One call   *)
(* runs on the variables of the pipeline; the locals of the other wait in  *)
(* suspended until the scheduler switches to it.                           *)
(***************************************************************************)
ConcurrentSources ==
    {MARKDOWN_SIMPLE, RAW, UNTERMINATED, <<"{", "i", "d", "}">>,
     <<"[", "U+0060", "a", "]">>, <<"[", "a", "]", "(", "u", ")">>}

\* The locals of the running call.
Locals(id) ==
    [id |-> id, pc |-> pc, input |-> input, message |-> message, builder |-> builder,
     tokenizer |-> tokenizer, parser |-> parser, res |-> res, frames |-> frames,
     result |-> result]

\* The state of both calls after their first four statements.
ConcurrentInit ==
    /\ input \in ConcurrentSources
    /\ message \in MessageArgsFor(input)
    /\ res = None
    /\ builder = new
    /\ parser = Parser_new
    /\ tokenizer = input
    /\ pc = "tokenize"
    /\ frames = <<>>
    /\ result = None
    /\ op = NoOp
    /\ calls = 0
    /\ tokens = <<>>
    /\ \E source \in ConcurrentSources : \E msg \in MessageArgsFor(source) :
          suspended = Some([id |-> 2, pc |-> "tokenize", input |-> source,
                            message |-> msg, builder |-> new, tokenizer |-> source,
                            parser |-> Parser_new, res |-> None, frames |-> <<>>,
                            result |-> None])
    /\ blocks = <<>>
    /\ button_events = {}
    /\ button_repeat = {}
    /\ tasks = <<>>
    /\ registered = 0
    /\ fired = <<>>
    /\ AdminIdle

\* A switch that leaves the builder where it is: both calls append to one
\* builder, as they would with a builder kept in a static.
SwitchSharedBuilder ==
    /\ suspended # None
    /\ suspended' = Some(Locals(3 - suspended[1].id))
    /\ pc' = suspended[1].pc
    /\ input' = suspended[1].input
    /\ message' = suspended[1].message
    /\ tokenizer' = suspended[1].tokenizer
    /\ parser' = suspended[1].parser
    /\ res' = suspended[1].res
    /\ frames' = suspended[1].frames
    /\ result' = suspended[1].result
    /\ UNCHANGED <<builder, op, calls, tokens, blocks, clientVars, adminVars, permissionVars>>

\* A switch that leaves the lexer where it is: both calls take their tokens
\* from one Lexer, as they would with a lexer kept in a static.
SwitchSharedLexer ==
    /\ suspended # None
    /\ suspended' = Some(Locals(3 - suspended[1].id))
    /\ pc' = suspended[1].pc
    /\ input' = suspended[1].input
    /\ message' = suspended[1].message
    /\ builder' = suspended[1].builder
    /\ parser' = suspended[1].parser
    /\ res' = suspended[1].res
    /\ frames' = suspended[1].frames
    /\ result' = suspended[1].result
    /\ UNCHANGED <<tokenizer, op, calls, tokens, blocks, clientVars, adminVars, permissionVars>>

\* The scheduler stops the running call and goes on with the other one:
\* every local of a call is its own (s, tokenizer, parser, res and the
\* arguments live in the frame of the call).
Switch ==
    /\ suspended # None
    /\ suspended' = Some(Locals(3 - suspended[1].id))
    /\ pc' = suspended[1].pc
    /\ input' = suspended[1].input
    /\ message' = suspended[1].message
    /\ builder' = suspended[1].builder
    /\ tokenizer' = suspended[1].tokenizer
    /\ parser' = suspended[1].parser
    /\ res' = suspended[1].res
    /\ frames' = suspended[1].frames
    /\ result' = suspended[1].result
    /\ UNCHANGED <<op, calls, tokens, blocks, clientVars, adminVars, permissionVars>>

ConcurrentNext ==
    \/ Tokenize
    \/ EndOfInput
    \/ ParseTgspanLeaf
    \/ ParseTgspanCall
    \/ ParseTgspanReturn
    \/ ReturnOk
    \/ Switch

SpecConcurrent == ConcurrentInit /\ [][ConcurrentNext]_vars

(***************************************************************************)
(* The Markdown adapter.  markdown::tokenize is a foreign crate: its       *)
(* result, a list of Block values, is the input.  A Span is                *)
(* [kind, text | hint, link | spans], a Block [kind, spans | blocks | text *)
(* | items], a ListItem [kind, spans | blocks].                            *)
(***************************************************************************)
\* The end of the Emphasis / Strong arm with the entity anchored at the
\* cursor after the children.
parse_span_entity_at_cursor(start, r, entity_type) ==
    Step([r.builder EXCEPT !.entities =
              Append(@, set_type(MessageEntityBuilder_new(r.builder.offset, r.size),
                                 entity_type))],
         r.size)

\* The end of the Emphasis / Strong arm: the entity over (start, size) is
\* pushed after the children and size is returned.
parse_span_entity(start, r, entity_type) ==
    Step([r.builder EXCEPT !.entities =
              Append(@, set_type(MessageEntityBuilder_new(start, r.size), entity_type))],
         r.size)

RECURSIVE parse_span(_, _)
parse_span(b, span) ==
    LET RECURSIVE for_each(_, _)
        \* emp.into_iter().for_each(|v| { size += self.parse_span(v); })
        for_each(acc, spans) ==
            IF spans = <<>> THEN acc
            ELSE LET r == parse_span(acc.builder, Head(spans))
                 IN  for_each(Step(r.builder, acc.size + r.size), Tail(spans))
    IN  CASE span.kind = "Break" ->
                LET str == <<"\n">>
                IN  Step(text(b, str), encode_utf16_count(str))
          [] span.kind = "Text" ->
                LET i == encode_utf16_count(span.text)
                IN  Step(text(b, span.text), i)
          [] span.kind = "Code" ->
                LET i == encode_utf16_count(span.text)
                IN  Step(code(b, span.text), i)
          [] span.kind = "Link" ->
                LET i == encode_utf16_count(span.hint)
                IN  Step(text_link(b, span.hint, span.link, None), i)
          [] span.kind = "Image" -> Step(b, 0)
          [] span.kind = "Emphasis" ->
                parse_span_entity(b.offset, for_each(Step(b, 0), span.spans), "italic")
          [] span.kind = "Strong" ->
                parse_span_entity(b.offset, for_each(Step(b, 0), span.spans), "bold")

RECURSIVE parse_block(_, _)
RECURSIVE parse_listitem(_, _)
parse_listitem(b, list_item) ==
    LET RECURSIVE spans_each(_, _)
        spans_each(acc, spans) ==
            IF spans = <<>> THEN acc
            ELSE spans_each(parse_span(acc, Head(spans)).builder, Tail(spans))
        RECURSIVE blocks_each(_, _)
        blocks_each(acc, paragraphs) ==
            IF paragraphs = <<>> THEN acc
            ELSE blocks_each(parse_block(acc, Head(paragraphs)), Tail(paragraphs))
    IN  CASE list_item.kind = "Simple" -> spans_each(b, list_item.spans)
          [] list_item.kind = "Paragraph" -> blocks_each(b, list_item.blocks)

parse_block(b, block) ==
    LET RECURSIVE spans_each(_, _)
        spans_each(acc, spans) ==
            IF spans = <<>> THEN acc
            ELSE spans_each(parse_span(acc, Head(spans)).builder, Tail(spans))
        RECURSIVE blocks_each(_, _)
        blocks_each(acc, blocks_) ==
            IF blocks_ = <<>> THEN acc
            ELSE blocks_each(parse_block(acc, Head(blocks_)), Tail(blocks_))
        RECURSIVE items_each(_, _)
        items_each(acc, l) ==
            IF l = <<>> THEN acc
            ELSE items_each(parse_listitem(acc, Head(l)), Tail(l))
    IN  CASE block.kind = "Header" -> spans_each(b, block.spans)
          [] block.kind = "Paragraph" -> spans_each(b, block.spans)
          [] block.kind = "Blockquote" -> blocks_each(b, block.blocks)
          [] block.kind = "CodeBlock" -> code(b, block.text)
          [] block.kind = "OrderedList" -> items_each(b, block.items)
          [] block.kind = "UnorderedList" -> items_each(b, block.items)
          [] block.kind = "Raw" -> text(b, block.text)
          [] block.kind = "Hr" -> b

\* How many children an Emphasis or Strong span has, and how many blocks a
\* document has, at most.
MaxChildren == 2
MaxBlocks == 2

\* Spans: every leaf, and the Emphasis and Strong spans over at most
\* MaxChildren children, a child being a leaf or a nested Emphasis or Strong.
MarkdownSpans ==
    LET leaves == {[kind |-> "Break"], [kind |-> "Image"],
                   [kind |-> "Text", text |-> <<"U+1F600">>],
                   [kind |-> "Code", text |-> <<"a">>],
                   [kind |-> "Link", hint |-> <<"a", "U+1F600">>, link |-> <<"u">>]}
        children == {[kind |-> "Image"],
                     [kind |-> "Text", text |-> <<"U+1F600">>],
                     [kind |-> "Link", hint |-> <<"a", "U+1F600">>, link |-> <<"u">>],
                     [kind |-> "Emphasis",
                      spans |-> <<[kind |-> "Code", text |-> <<"a">>], [kind |-> "Break"]>>]}
    IN  leaves \cup {[kind |-> k, spans |-> c] : k \in {"Emphasis", "Strong"},
                                                 c \in Strings(children, MaxChildren)}

\* Blocks of every kind over a few of the spans.
MarkdownBlocks ==
    LET em == [kind |-> "Emphasis",
               spans |-> <<[kind |-> "Text", text |-> <<"U+1F600">>], [kind |-> "Image"],
                           [kind |-> "Strong", spans |-> <<[kind |-> "Code", text |-> <<"a">>]>>]>>]
        paragraph == [kind |-> "Paragraph", spans |-> <<em>>]
        codeblock == [kind |-> "CodeBlock", text |-> <<"U+1F600", "a">>]
    IN  {paragraph, codeblock,
         [kind |-> "Paragraph", spans |-> <<[kind |-> "Text", text |-> <<"a">>], em>>],
         [kind |-> "Paragraph", spans |-> <<[kind |-> "Image"]>>],
         [kind |-> "Header",
          spans |-> <<[kind |-> "Link", hint |-> <<"a">>, link |-> <<"u">>], [kind |-> "Break"]>>],
         [kind |-> "Raw", text |-> <<"a">>],
         [kind |-> "Hr"],
         [kind |-> "Blockquote", blocks |-> <<paragraph>>],
         [kind |-> "OrderedList", items |-> <<[kind |-> "Simple", spans |-> <<em>>]>>],
         [kind |-> "UnorderedList",
          items |-> <<[kind |-> "Paragraph", blocks |-> <<codeblock>>]>>]}

\* from_markdown after let mut s = Self::new() and markdown::tokenize(text).
MarkdownInit ==
    /\ blocks \in Strings(MarkdownBlocks, MaxBlocks)
    /\ builder = new
    /\ pc = "parse_block"
    /\ op = NoOp
    /\ calls = 0
    /\ input = <<>>
    /\ message = None
    /\ tokenizer = <<>>
    /\ parser = <<>>
    /\ res = None
    /\ frames = <<>>
    /\ result = None
    /\ tokens = <<>>
    /\ suspended = <<>>
    /\ button_events = {}
    /\ button_repeat = {}
    /\ tasks = <<>>
    /\ registered = 0
    /\ fired = <<>>
    /\ AdminIdle

\* One iteration of for_each(|v| { s.parse_block(v); }).
ParseBlock ==
    /\ pc = "parse_block"
    /\ blocks # <<>>
    /\ builder' = parse_block(builder, Head(blocks))
    /\ blocks' = Tail(blocks)
    /\ op' = [name |-> "parse_block", text |-> <<>>, advance |-> None,
              block |-> Head(blocks)]
    /\ UNCHANGED <<calls, murkdownVars, suspended, clientVars, adminVars, permissionVars>>

\* from_markdown returns s.
FromMarkdownReturn ==
    /\ pc = "parse_block"
    /\ blocks = <<>>
    /\ pc' = "Ok"
    /\ result' = Some(builder)
    /\ UNCHANGED <<builderVars, blocks, input, message, tokenizer, parser, res, frames,
                   tokens, suspended, clientVars, adminVars, permissionVars>>

MarkdownNext == ParseBlock \/ FromMarkdownReturn

SpecMarkdown == MarkdownInit /\ [][MarkdownNext]_vars

(***************************************************************************)
(* TgClient: the callback registries and the task handle_update spawns for *)
(* a callback query.  A DashMap is a set of <<key, value>> pairs with one  *)
(* pair per key at most; a callback is known by its registration number.   *)
(* A task is [data, pc, cb, returned]: pc is "single" before                *)
(* callbacks.remove(&data), "single_await" while the single callback runs, *)
(* "multi" before repeats.get(&data), "multi_await" while the multi        *)
(* callback runs (the task holds the map's guard for data), "remove"       *)
(* before if remove { repeats.remove(&data) }, and "done".                 *)
(***************************************************************************)
MaxRegistrations == 2
MaxUpdates == 2

CallbackData == {"d", "e"}

\* DashMap::get / contains for a key.
Entries(map, data) == {entry \in map : entry[1] = data}
\* DashMap::insert: the value of an existing key is replaced.
Insert(map, data, value) == (map \ Entries(map, data)) \cup {<<data, value>>}

\* A task that awaits its multi callback holds the read guard repeats.get
\* returned; insert and remove on that key wait for it.
GuardHeld(data) == \E i \in 1..Len(tasks) : tasks[i].pc = "multi_await" /\ tasks[i].data = data

ClientInit ==
    /\ button_events = {}
    /\ button_repeat = {}
    /\ tasks = <<>>
    /\ registered = 0
    /\ fired = <<>>
    /\ builder = new
    /\ op = NoOp
    /\ calls = 0
    /\ pc = "run"
    /\ input = <<>>
    /\ message = None
    /\ tokenizer = <<>>
    /\ parser = <<>>
    /\ res = None
    /\ frames = <<>>
    /\ result = None
    /\ tokens = <<>>
    /\ suspended = <<>>
    /\ blocks = <<>>
    /\ AdminIdle

ClientFrame ==
    UNCHANGED <<builderVars, murkdownVars, suspended, blocks, adminVars, permissionVars>>

\* register_button for a button whose callback data is data.
RegisterButton ==
    /\ registered < MaxRegistrations
    /\ \E data \in CallbackData :
          button_events' = Insert(button_events, data, registered + 1)
    /\ registered' = registered + 1
    /\ UNCHANGED <<button_repeat, tasks, fired>>
    /\ ClientFrame

\* register_button_multi for a button whose callback data is data.
RegisterButtonMulti ==
    /\ registered < MaxRegistrations
    /\ \E data \in CallbackData :
          /\ ~GuardHeld(data)
          /\ button_repeat' = Insert(button_repeat, data, registered + 1)
    /\ registered' = registered + 1
    /\ UNCHANGED <<button_events, tasks, fired>>
    /\ ClientFrame

\* handle_update receives a callback query that carries data and spawns its
\* task.
HandleUpdate ==
    /\ Len(tasks) < MaxUpdates
    /\ \E data \in CallbackData :
          tasks' = Append(tasks, [data |-> data, pc |-> "single", cb |-> None,
                                  returned |-> None])
    /\ UNCHANGED <<button_events, button_repeat, registered, fired>>
    /\ ClientFrame

\* A task that looks the single callback up and leaves it in the map while
\* it runs: callbacks.get(&data) in place of callbacks.remove(&data).
SingleCallbackGet ==
    /\ \E i \in 1..Len(tasks) :
          /\ tasks[i].pc = "single"
          /\ LET found == Entries(button_events, tasks[i].data)
             IN  IF found = {}
                 THEN /\ tasks' = [tasks EXCEPT ![i].pc = "multi"]
                      /\ UNCHANGED fired
                 ELSE \E entry \in found :
                        /\ tasks' = [tasks EXCEPT ![i].pc = "single_await"]
                        /\ fired' = Append(fired, [cb |-> entry[2], kind |-> "single",
                                                    task |-> i])
    /\ UNCHANGED <<button_events, button_repeat, registered>>
    /\ ClientFrame

\* if let Some(cb) = callbacks.remove(&data) { cb.1.cb(callbackquery.clone()) ...
\* remove takes the entry out and hands it to this task alone, which calls it.
SingleCallback ==
    /\ \E i \in 1..Len(tasks) :
          /\ tasks[i].pc = "single"
          /\ LET found == Entries(button_events, tasks[i].data)
             IN  IF found = {}
                 THEN /\ tasks' = [tasks EXCEPT ![i].pc = "multi"]
                      /\ UNCHANGED <<button_events, fired>>
                 ELSE \E entry \in found :
                        /\ button_events' = button_events \ {entry}
                        /\ tasks' = [tasks EXCEPT ![i].pc = "single_await"]
                        /\ fired' = Append(fired, [cb |-> entry[2], kind |-> "single",
                                                    task |-> i])
    /\ UNCHANGED <<button_repeat, registered>>
    /\ ClientFrame

\* ... .await: the single callback finishes; an Err is logged only.
SingleCallbackDone ==
    /\ \E i \in 1..Len(tasks) :
          /\ tasks[i].pc = "single_await"
          /\ tasks' = [tasks EXCEPT ![i].pc = "multi"]
    /\ UNCHANGED <<button_events, button_repeat, registered, fired>>
    /\ ClientFrame

\* if let Some(cb) = repeats.get(&data) { cb.cb(callbackquery) ... } else { false }
MultiCallback ==
    /\ \E i \in 1..Len(tasks) :
          /\ tasks[i].pc = "multi"
          /\ LET found == Entries(button_repeat, tasks[i].data)
             IN  IF found = {}
                 THEN /\ tasks' = [tasks EXCEPT ![i].pc = "done"]
                      /\ UNCHANGED fired
                 ELSE \E entry \in found :
                        /\ tasks' = [tasks EXCEPT ![i].pc = "multi_await",
                                                   ![i].cb = Some(entry[2])]
                        /\ fired' = Append(fired, [cb |-> entry[2], kind |-> "multi",
                                                    task |-> i])
    /\ UNCHANGED <<button_events, button_repeat, registered>>
    /\ ClientFrame

\* What a multi callback can return: Ok(true), Ok(false) or an error.
MultiReturns == {Ok(TRUE), Ok(FALSE), Err("BotError")}

\* ... .await returns: match { Err(err) => true, Ok(v) => v } is the value of
\* remove, and the guard is released.
MultiCallbackDone ==
    /\ \E i \in 1..Len(tasks) : \E v \in MultiReturns :
          /\ tasks[i].pc = "multi_await"
          /\ LET remove == IF v.ok THEN v.value ELSE TRUE
             IN  tasks' = [tasks EXCEPT ![i].pc = IF remove THEN "remove" ELSE "done",
                                        ![i].returned = Some(v)]
    /\ UNCHANGED <<button_events, button_repeat, registered, fired>>
    /\ ClientFrame

\* if remove { repeats.remove(&data); }
MultiRemove ==
    /\ \E i \in 1..Len(tasks) :
          /\ tasks[i].pc = "remove"
          /\ ~GuardHeld(tasks[i].data)
          /\ button_repeat' = button_repeat \ Entries(button_repeat, tasks[i].data)
          /\ tasks' = [tasks EXCEPT ![i].pc = "done"]
    /\ UNCHANGED <<button_events, registered, fired>>
    /\ ClientFrame

ClientNext ==
    \/ RegisterButton
    \/ RegisterButtonMulti
    \/ HandleUpdate
    \/ SingleCallback
    \/ SingleCallbackDone
    \/ MultiCallback
    \/ MultiCallbackDone
    \/ MultiRemove

SpecClient == ClientInit /\ [][ClientNext]_vars

(***************************************************************************)
(* The lexer on its own: a caller that asks for tokens until next_token    *)
(* returns None, as tokenize_test does, without a parser behind it.        *)
(***************************************************************************)
MaxRun == 5

\* Runs of underscores and of bars.
Runs == {[i \in 1..n |-> c] : n \in 1..MaxRun, c \in {"_", "|"}}

LexerSources == ShortSources \cup TestSources \cup Runs

\* Lexer::new(input)
LexerInit ==
    /\ input \in LexerSources
    /\ tokenizer = input
    /\ tokens = <<>>
    /\ pc = "next_token"
    /\ message = None
    /\ res = None
    /\ builder = new
    /\ parser = <<>>
    /\ frames = <<>>
    /\ result = None
    /\ op = NoOp
    /\ calls = 0
    /\ ForeignIdle

\* next_token() returns Some(token).
NextTokenSome ==
    /\ pc = "next_token"
    /\ LET nt == next_token(tokenizer)
       IN  /\ nt.token # None
           /\ tokens' = Append(tokens, nt.token[1])
           /\ tokenizer' = nt.rest
    /\ UNCHANGED <<foreignVars, builderVars, pc, input, message, parser, res, frames, result>>

\* next_token() returns None: end of input.
NextTokenNone ==
    /\ pc = "next_token"
    /\ LET nt == next_token(tokenizer)
       IN  /\ nt.token = None
           /\ tokenizer' = nt.rest
    /\ pc' = "None"
    /\ UNCHANGED <<foreignVars, builderVars, tokens, input, message, parser, res, frames, result>>

LexerNext == NextTokenSome \/ NextTokenNone

SpecLexer == LexerInit /\ [][LexerNext]_vars

(***************************************************************************)
(* The admin cache of one chat (tg/permissions.rs and tg/admin_helpers.rs, *)
(* impl GetCachedAdmins for Chat).  Redis holds the lock key               *)
(* "aclock:<chat>" and the hash "ca:<chat>" of the chat, each None or      *)
(* [value, expires]; a key is gone once its expiry time has come.  Any     *)
(* number of refresh_cached_admins calls run as tasks whose awaits         *)
(* interleave.  A call is [impl, group, pc, admins, locked, requested,     *)
(* wrote, result]: pc is "get_chat_administrators", "exists", "try_pipe",  *)
(* "get_chat_lang" or "done"; locked, requested and wrote record whether   *)
(* the lock key existed when the call began, whether the call has sent its *)
(* request to Telegram and whether it has written the cache.  Redis and    *)
(* get_chat_lang always answer; the request to Telegram may fail.          *)
(***************************************************************************)
MaxRefreshes == 2
MaxClock == 15
TickMinutes == 5
\* Duration::minutes(10) and Duration::hours(48), in minutes.
LockMinutes == 10
CacheMinutes == 2880

\* The administrators Telegram may report for the chat.
AdminLists == {{1}, {1, 2}}

\* The two implementations: bot_impl's begins with is_group_or_die and
\* deletes the hash before it writes, bobot_impl's does neither.
Impls == {"bot_impl", "bobot_impl"}

AdminsInit ==
    /\ redis = [aclock |-> None, ca |-> None]
    /\ tg \in {[administrators |-> a, requests |-> 0] : a \in AdminLists}
    /\ now = 0
    /\ refreshing = <<>>
    /\ CONFIG = [sudo_users |-> {}, support_users |-> {}]
    /\ check = <<>>
    /\ pc = "run"
    /\ builder = new
    /\ op = NoOp
    /\ calls = 0
    /\ input = <<>>
    /\ message = None
    /\ tokenizer = <<>>
    /\ parser = <<>>
    /\ res = None
    /\ frames = <<>>
    /\ result = None
    /\ tokens = <<>>
    /\ suspended = <<>>
    /\ blocks = <<>>
    /\ button_events = {}
    /\ button_repeat = {}
    /\ tasks = <<>>
    /\ registered = 0
    /\ fired = <<>>

AdminsFrame ==
    UNCHANGED <<builderVars, murkdownVars, suspended, blocks, clientVars, permissionVars>>

\* q.exists(&key)
exists(key) == key # None

\* The hash after the pipe: q.del(&key) (bot_impl only), then q.hset(&key,
\* id, cm) for every administrator fetched.
hset_admins(impl, ca, admins) ==
    IF impl = "bot_impl" \/ ca = None THEN admins ELSE ca[1].value \cup admins

\* A refresh_cached_admins call begins: is_group_or_die (bot_impl), whose
\* failure returns Ok(HashMap::new()).
RefreshCachedAdmins ==
    /\ Len(refreshing) < MaxRefreshes
    /\ \E impl \in Impls, group \in BOOLEAN :
          /\ impl = "bobot_impl" => group
          /\ refreshing' =
                Append(refreshing,
                       [impl |-> impl, group |-> group,
                        pc |-> IF group THEN "get_chat_administrators" ELSE "done",
                        admins |-> {}, locked |-> exists(redis.aclock),
                        requested |-> FALSE, wrote |-> FALSE,
                        result |-> IF group THEN None ELSE Some(Ok({}))])
    /\ UNCHANGED <<redis, tg, now>>
    /\ AdminsFrame

\* TG.client().build_get_chat_administrators(..).build().await?
GetChatAdministrators(i) ==
    /\ refreshing[i].pc = "get_chat_administrators"
    /\ tg' = [tg EXCEPT !.requests = @ + 1]
    /\ \E ok \in BOOLEAN :
          refreshing' =
             [refreshing EXCEPT ![i] =
                 [@ EXCEPT !.requested = TRUE,
                           !.admins = IF ok THEN tg.administrators ELSE {},
                           !.pc = IF ok THEN "exists" ELSE "done",
                           !.result = IF ok THEN None ELSE Some(Err("ApiError"))]]
    /\ UNCHANGED <<redis, now>>
    /\ AdminsFrame

\* if !REDIS.sq(|q| q.exists(&lockkey)).await?
Exists(i) ==
    /\ refreshing[i].pc = "exists"
    /\ refreshing' =
          [refreshing EXCEPT ![i].pc =
              IF exists(redis.aclock) THEN "get_chat_lang" ELSE "try_pipe"]
    /\ UNCHANGED <<redis, tg, now>>
    /\ AdminsFrame

\* REDIS.try_pipe(..).await?; Ok(res): the lock key is set for 10 minutes
\* and the hash rewritten for 48 hours.
TryPipe(i) ==
    /\ refreshing[i].pc = "try_pipe"
    /\ redis' =
          [aclock |-> Some([value |-> TRUE, expires |-> now + LockMinutes]),
           ca |-> Some([value |-> hset_admins(refreshing[i].impl, redis.ca,
                                              refreshing[i].admins),
                        expires |-> now + CacheMinutes])]
    /\ refreshing' =
          [refreshing EXCEPT ![i] =
              [@ EXCEPT !.wrote = TRUE, !.pc = "done",
                        !.result = Some(Ok(refreshing[i].admins))]]
    /\ UNCHANGED <<tg, now>>
    /\ AdminsFrame

\* The else branch: get_chat_lang(..).await?, then the "cachewait" error.
CacheWait(i) ==
    /\ refreshing[i].pc = "get_chat_lang"
    /\ refreshing' =
          [refreshing EXCEPT ![i] =
              [@ EXCEPT !.pc = "done", !.result = Some(Err("cachewait"))]]
    /\ UNCHANGED <<redis, tg, now>>
    /\ AdminsFrame

\* Time passes and Redis drops the keys whose expiry time has come.
Tick ==
    /\ now + TickMinutes <= MaxClock
    /\ now' = now + TickMinutes
    /\ LET expire(key) == IF key # None /\ key[1].expires <= now' THEN None ELSE key
       IN  redis' = [aclock |-> expire(redis.aclock), ca |-> expire(redis.ca)]
    /\ UNCHANGED <<tg, refreshing>>
    /\ AdminsFrame

\* Somebody is promoted or demoted in the chat.
AdministratorsChange ==
    /\ \E a \in AdminLists \ {tg.administrators} : tg' = [tg EXCEPT !.administrators = a]
    /\ UNCHANGED <<redis, now, refreshing>>
    /\ AdminsFrame

AdminsNext ==
    \/ RefreshCachedAdmins
    \/ \E i \in DOMAIN refreshing :
          GetChatAdministrators(i) \/ Exists(i) \/ TryPipe(i) \/ CacheWait(i)
    \/ Tick
    \/ AdministratorsChange

SpecAdmins == AdminsInit /\ [][AdminsNext]_vars

(***************************************************************************)
(* Permission checks (tg/permissions.rs).  A NamedPermission is the        *)
(* sequence of its parts [name, val]; NamedBotPermissions is a record of   *)
(* eight of them.  A ChatMember is [status, rights]: rights are the six    *)
(* flags of a ChatMemberAdministrator, can_pin_messages an Option.  The    *)
(* mapper function of check_permissions is the sequence of the fields it   *)
(* combines with and().  A check is [from, group, member, func, pc,        *)
(* permission, result]: member is what the admin cache holds for the       *)
(* sender, pc is "is_group_or_die", "get_from", "from_chatuser", "func" or *)
(* "done".  An error is the sequence of the pieces of its message.         *)
(***************************************************************************)
NamedPermissionContent_new(name, val) == [name |-> name, val |-> val]
NamedPermission_new(name, val) == <<NamedPermissionContent_new(name, val)>>

\* self.0.iter().all(|v| v.val)
is_granted(p) == \A i \in DOMAIN p : p[i].val

\* self.0.iter().map(|v| v.name).join(" and ")
get_name(p) ==
    [i \in 1..(2 * Len(p) - 1) |-> IF i % 2 = 1 THEN p[(i + 1) \div 2].name ELSE " and "]

\* self.0.extend(new_perm.0)
and(p, new_perm) == p \o new_perm

BotPermissions(manage, restrict, delete, change, promote, pin) ==
    [can_manage_chat |-> manage, can_restrict_members |-> restrict,
     can_delete_messages |-> delete, can_change_info |-> change,
     can_promote_members |-> promote, can_pin_messages |-> pin]

\* impl Into<NamedBotPermissions> for BotPermissions
into(bp) ==
    [can_manage_chat |-> NamedPermission_new("CanManageChat", bp.can_manage_chat),
     can_restrict_members |->
        NamedPermission_new("CanRestrictMembers", bp.can_restrict_members),
     can_delete_messages |->
        NamedPermission_new("CanDeleteMessasges", bp.can_delete_messages),
     can_change_info |-> NamedPermission_new("CanChangeInfo", bp.can_change_info),
     can_promote_members |->
        NamedPermission_new("CanPromoteMembers", bp.can_promote_members),
     can_pin_messages |-> NamedPermission_new("CanPinMessages", bp.can_pin_messages),
     is_sudo |-> NamedPermission_new("Sudo", FALSE),
     is_support |-> NamedPermission_new("Support", FALSE)]

\* impl From<ChatMemberAdministrator> for NamedBotPermissions
from_ChatMemberAdministrator(value) ==
    into(BotPermissions(value.can_manage_chat, value.can_restrict_members,
                        value.can_delete_messages, value.can_change_info,
                        value.can_promote_members,
                        unwrap_or(value.can_pin_messages, FALSE)))

\* impl From<ChatMember> for NamedBotPermissions
from_ChatMember(value) ==
    CASE value.status = "ChatMemberAdministrator" ->
            from_ChatMemberAdministrator(value.rights)
      [] value.status = "ChatMemberOwner" ->
            into(BotPermissions(TRUE, TRUE, TRUE, TRUE, TRUE, TRUE))
      [] OTHER -> into(BotPermissions(FALSE, FALSE, FALSE, FALSE, FALSE, FALSE))

\* v.0.iter_mut().for_each(|v| v.val = true)
grant_all(p) == [i \in DOMAIN p |-> [p[i] EXCEPT !.val = TRUE]]

\* from_chatuser() that treats a support user as a sudo user.
from_chatuser_support_is_sudo(user, admin, config) ==
    LET v == IF admin # None THEN from_ChatMember(admin[1])
             ELSE into(BotPermissions(FALSE, FALSE, FALSE, FALSE, FALSE, FALSE))
    IN  IF user \in config.sudo_users \cup config.support_users
        THEN [v EXCEPT !.is_sudo = grant_all(@), !.is_support = grant_all(@)]
        ELSE v

\* NamedBotPermissions::from_chatuser, given the answer `admin` of
\* chat.is_user_admin(user.get_id()).
from_chatuser(user, admin, config) ==
    LET v == IF admin # None THEN from_ChatMember(admin[1])
             ELSE into(BotPermissions(FALSE, FALSE, FALSE, FALSE, FALSE, FALSE))
        w == IF user \in config.sudo_users
             THEN [v EXCEPT !.is_sudo = grant_all(@), !.is_support = grant_all(@)]
             ELSE v
    IN  IF user \in config.support_users
        THEN [w EXCEPT !.is_support = grant_all(@)]
        ELSE w

\* func(permission): the fields the mapper selects, combined with and().
RECURSIVE func(_, _)
func(fields, permission) ==
    IF Len(fields) = 1 THEN permission[fields[1]]
    ELSE and(func(SubSeq(fields, 1, Len(fields) - 1), permission),
             permission[fields[Len(fields)]])

\* BotError::speak(format!("Permission denied. User missing \"{}\"", p.get_name()), ..)
PermissionDenied(p) == <<"Permission denied. User missing ">> \o get_name(p)

PermissionFields ==
    {"can_manage_chat", "can_restrict_members", "can_delete_messages", "can_change_info",
     "can_promote_members", "can_pin_messages", "is_sudo", "is_support"}

\* The mappers: every single permission and a few combinations.
Mappers ==
    {<<f>> : f \in PermissionFields}
    \cup {<<"can_restrict_members", "can_delete_messages">>,
          <<"can_change_info", "can_pin_messages">>,
          <<"is_support", "can_manage_chat">>}

\* What the admin cache may hold for the sender: nothing, the owner, an
\* ordinary member, or an administrator with some of the rights.
AdminRights ==
    {[can_manage_chat |-> TRUE, can_restrict_members |-> TRUE,
      can_delete_messages |-> FALSE, can_change_info |-> TRUE,
      can_promote_members |-> FALSE, can_pin_messages |-> None],
     [can_manage_chat |-> TRUE, can_restrict_members |-> TRUE,
      can_delete_messages |-> TRUE, can_change_info |-> FALSE,
      can_promote_members |-> TRUE, can_pin_messages |-> Some(TRUE)],
     [can_manage_chat |-> FALSE, can_restrict_members |-> FALSE,
      can_delete_messages |-> TRUE, can_change_info |-> TRUE,
      can_promote_members |-> FALSE, can_pin_messages |-> Some(FALSE)]}

ChatMembers ==
    {[status |-> "ChatMemberOwner", rights |-> <<>>],
     [status |-> "ChatMemberMember", rights |-> <<>>]}
    \cup {[status |-> "ChatMemberAdministrator", rights |-> r] : r \in AdminRights}

UserIds == {1, 2}

PermissionsInit ==
    /\ CONFIG \in [sudo_users : {{}, {1}}, support_users : {{}, {1}, {2}}]
    /\ check \in {Some([from |-> f, group |-> g, member |-> m, func |-> fn,
                        pc |-> "is_group_or_die", permission |-> None, result |-> None]) :
                     f \in {None} \cup {Some(u) : u \in UserIds}, g \in BOOLEAN,
                     m \in {None} \cup {Some(c) : c \in ChatMembers}, fn \in Mappers}
    /\ redis = [aclock |-> None, ca |-> None]
    /\ tg = [administrators |-> {}, requests |-> 0]
    /\ now = 0
    /\ refreshing = <<>>
    /\ pc = "run"
    /\ builder = new
    /\ op = NoOp
    /\ calls = 0
    /\ input = <<>>
    /\ message = None
    /\ tokenizer = <<>>
    /\ parser = <<>>
    /\ res = None
    /\ frames = <<>>
    /\ result = None
    /\ tokens = <<>>
    /\ suspended = <<>>
    /\ blocks = <<>>
    /\ button_events = {}
    /\ button_repeat = {}
    /\ tasks = <<>>
    /\ registered = 0
    /\ fired = <<>>

PermissionsFrame ==
    UNCHANGED <<builderVars, murkdownVars, suspended, blocks, clientVars, adminVars, CONFIG>>

Return(value) == check' = Some([check[1] EXCEPT !.pc = "done", !.result = Some(value)])

\* is_group_or_die(&chat).await?
IsGroupOrDie ==
    /\ check # None
    /\ check[1].pc = "is_group_or_die"
    /\ IF check[1].group
       THEN check' = Some([check[1] EXCEPT !.pc = "get_from"])
       ELSE Return(Err(<<"is_group_or_die">>))
    /\ PermissionsFrame

\* self.get_from().ok_or_else(|| BotError::Generic("user not found".to_owned()))?
GetFrom ==
    /\ check # None
    /\ check[1].pc = "get_from"
    /\ IF check[1].from # None
       THEN check' = Some([check[1] EXCEPT !.pc = "from_chatuser"])
       ELSE Return(Err(<<"user not found">>))
    /\ PermissionsFrame

\* NamedBotPermissions::from_chatuser(&user, chat).await?: the admin cache
\* answers with what it holds for the user, or the lookup fails.
FromChatuser ==
    /\ check # None
    /\ check[1].pc = "from_chatuser"
    /\ \/ check' = Some([check[1] EXCEPT
                            !.pc = "func",
                            !.permission =
                                Some(from_chatuser(check[1].from[1], check[1].member,
                                                   CONFIG))])
       \/ Return(Err(<<"BotError">>))
    /\ PermissionsFrame

\* let sudo = ..; let p = func(permission); if !p.is_granted() && !sudo ..
Func ==
    /\ check # None
    /\ check[1].pc = "func"
    /\ LET permission == check[1].permission[1]
           sudo == is_granted(permission.is_sudo)
           p == func(check[1].func, permission)
       IN  IF ~is_granted(p) /\ ~sudo
           THEN Return(Err(PermissionDenied(p)))
           ELSE Return(Ok(<<>>))
    /\ PermissionsFrame

PermissionsNext == IsGroupOrDie \/ GetFrom \/ FromChatuser \/ Func

SpecPermissions == PermissionsInit /\ [][PermissionsNext]_vars

(***************************************************************************)
(* Properties of the builder used directly (SpecBuilder).                  *)
(***************************************************************************)
Last(seq) == seq[Len(seq)]
IsPrefix(p, q) == Len(p) <= Len(q) /\ SubSeq(q, 1, Len(p)) = p

\* The entity-creating appends that take an advance override.
OverrideOps == {"regular", "text_link", "text_mention", "pre", "custom_emoji"}

\* C1: in every state reached by builder appends, with or without an advance
\* override, the cursor equals the UTF-16 length of the text buffer.
C1_CursorIsUtf16Length ==
    builder.offset = encode_utf16_count(builder.text)

\* C3: every operation that appends an entity anchors it at the cursor value
\* held immediately before the operation.
C3_EntityAnchoredAtPriorCursor ==
    [][Len(builder'.entities) > Len(builder.entities)
         => /\ Len(builder'.entities) = Len(builder.entities) + 1
            /\ Last(builder'.entities).offset = builder.offset]_vars

\* An entity has been appended at a cursor that an earlier override moved to 3.
C3_Witness ==
    /\ Len(builder.entities) = 2
    /\ builder.entities[1].offset = 0
    /\ builder.entities[2].offset = 3
    /\ op.name \in OverrideOps

\* C4: every entity lies inside the text buffer: offset >= 0 and
\* offset + length <= UTF-16 length of the text.
C4_EntitiesInsideText ==
    \A i \in 1..Len(builder.entities) :
        /\ builder.entities[i].offset >= 0
        /\ builder.entities[i].offset + builder.entities[i].length
               <= encode_utf16_count(builder.text)

\* C5: every builder operation only appends: the cursor never decreases, the
\* old text is a prefix of the new text and the old entity list is a prefix
\* of the new entity list.
C5_ForwardAppendingOnly ==
    [][/\ builder'.offset >= builder.offset
       /\ IsPrefix(builder.text, builder'.text)
       /\ IsPrefix(builder.entities, builder'.entities)]_vars

StyleType(kind) ==
    CASE kind = "Bold" -> "bold"
      [] kind = "Italic" -> "italic"
      [] kind = "Underline" -> "underline"
      [] kind = "Strikethrough" -> "strikethrough"
      [] kind = "Spoiler" -> "spoiler"

\* The step in which the recursive call for a node of kind `arm` returns.
Returns(arm) ==
    /\ pc = "parse_tgspan"
    /\ pc' = "parse_tgspan"
    /\ Len(frames) > 1
    /\ Len(frames') = Len(frames) - 1
    /\ Top(frames).arm = arm

\* C2: resolving a Bold, Italic, Underline, Strikethrough or Spoiler node
\* appends, after its children, exactly one entity of the matching kind whose
\* offset is the cursor at the moment the node began and whose length is the
\* UTF-16 length of all text appended while resolving its children (in this
\* pipeline cursor and text length agree when the node begins).
C2_StyleEntityCoversChildren ==
    [][\A kind \in StyleKinds :
          Returns(kind)
            => /\ Len(builder'.entities) = Len(builder.entities) + 1
               /\ Last(builder'.entities).type = StyleType(kind)
               /\ Last(builder'.entities).offset = Top(frames).entry
               /\ Last(builder'.entities).length =
                      encode_utf16_count(builder'.text) - Top(frames).entry]_vars

\* C7: resolving Link(children, url) appends, after its children, exactly one
\* entity: a text_link with payload url, anchored at the cursor at the start
\* of the hint and as long as all text appended by the hint children.
C7_LinkEntityCoversHint ==
    [][Returns("Link")
         => /\ Len(builder'.entities) = Len(builder.entities) + 1
            /\ Last(builder'.entities).type = "text_link"
            /\ Last(builder'.entities).url = Some(Top(frames).link)
            /\ Last(builder'.entities).offset = Top(frames).entry
            /\ Last(builder'.entities).length =
                   encode_utf16_count(builder'.text) - Top(frames).entry]_vars

\* The whole token stream of a source.
RECURSIVE Tokens(_)
Tokens(chars) ==
    LET nt == next_token(chars)
    IN  IF nt.token = None THEN <<>> ELSE <<nt.token[1]>> \o Tokens(nt.rest)

\* Whether `close` occurs somewhere without an `open` before it that is
\* still unclosed, or an `open` is still unclosed at the end.
Unmatched(toks, open, close, depth) ==
    LET Count(k, n) == Cardinality({i \in 1..n : toks[i].k = k})
        Depth(n) == depth + Count(open, n) - Count(close, n)
    IN  \/ \E n \in 1..Len(toks) : Depth(n) < 0
        \/ Depth(Len(toks)) # 0

\* An LSBracket without its RSBracket, an RSBracket without its LSBracket,
\* and the same for the curly brackets: such a token stream reduces to no
\* span list.
Unterminated(source) ==
    \/ Unmatched(Tokens(source), "LSBracket", "RSBracket", 0)
    \/ Unmatched(Tokens(source), "LCurly", "RCurly", 0)

\* C8: a source with an unterminated or mismatched bracket makes
\* from_murkdown_internal return the murkdown parse error, and a parse error
\* returns nothing else: the resolver has not run and the builder holds no
\* text and no entity, not even for the well-formed prefix.
C8_ParseErrorReturnsNothing ==
    /\ Unterminated(input) => pc \in {"tokenize", "Err"}
    /\ pc = "tokenize" => builder = new /\ frames = <<>> /\ result = None
    /\ pc = "Err" =>
          /\ result = Some(Err(MurkdownError))
          /\ builder = new
          /\ res = None
          /\ frames = <<>>
    /\ (result # None /\ result[1].ok) => pc = "Ok" /\ res # None

\* "[*unterminated" has been rejected.
C8_Witness ==
    /\ input = UNTERMINATED
    /\ pc = "Err"
    /\ result = Some(Err(MurkdownError))

MarkerChars == {"_", "|", "~", "U+0060", "*", "[", "]", "(", ")", "{", "}"}

\* Whether the source holds a marker character that no backslash escapes.
RECURSIVE HasMarker(_)
HasMarker(source) ==
    IF source = <<>> THEN FALSE
    ELSE IF Head(source) = "\\"
         THEN Len(source) > 2 /\ HasMarker(SubSeq(source, 3, Len(source)))
    ELSE Head(source) \in MarkerChars \/ HasMarker(Tail(source))

\* The source with every escaping backslash removed.
RECURSIVE WithoutEscapes(_)
WithoutEscapes(source) ==
    IF source = <<>> THEN <<>>
    ELSE IF Head(source) = "\\"
         THEN IF Len(source) = 1 THEN <<>>
              ELSE <<source[2]>> \o WithoutEscapes(SubSeq(source, 3, Len(source)))
    ELSE <<Head(source)>> \o WithoutEscapes(Tail(source))

StyleMarker(kind) ==
    CASE kind = "Bold" -> <<"*">>
      [] kind = "Italic" -> <<"_">>
      [] kind = "Underline" -> <<"_", "_">>
      [] kind = "Strikethrough" -> <<"~">>
      [] kind = "Spoiler" -> <<"|", "|">>

\* Plain text: no marker character and no backslash.
IsPlain(str) == \A i \in 1..Len(str) : str[i] \notin MarkerChars \cup {"\\"}

\* The text t of a source "[" + marker + t + "]".
StyleText(source, kind) ==
    SubSeq(source, 2 + Len(StyleMarker(kind)), Len(source) - 1)

IsStyleSource(source, kind) ==
    /\ Len(source) >= Len(StyleMarker(kind)) + 3
    /\ source = <<"[">> \o StyleMarker(kind) \o StyleText(source, kind) \o <<"]">>
    /\ IsPlain(StyleText(source, kind))

\* C10: "[" + m + t + "]", for a style marker m and non-empty plain text t,
\* parses to one span of the kind of m wrapping Raw(t) and resolves to text t
\* and exactly one entity of that kind with offset 0 and length UTF16Length(t).
C10_StyleSourceIsOneEntity ==
    \A kind \in StyleKinds :
        IsStyleSource(input, kind) =>
            LET t == StyleText(input, kind)
            IN  /\ pc # "Err"
                /\ res # None => res[1] = <<[kind |-> kind, spans |-> <<Raw(t)>>]>>
                /\ pc = "Ok" =>
                      /\ result[1].value.text = t
                      /\ result[1].value.entities =
                            <<set_type(MessageEntityBuilder_new(0, encode_utf16_count(t)),
                                       StyleType(kind))>>

\* "[*bold]" has been compiled to "bold" and one bold entity (0, 4).
C10_Witness ==
    /\ input = MARKDOWN_SIMPLE
    /\ pc = "Ok"
    /\ result[1].value.text = <<"b", "o", "l", "d">>
    /\ Len(result[1].value.entities) = 1
    /\ result[1].value.entities[1].type = "bold"
    /\ result[1].value.entities[1].offset = 0
    /\ result[1].value.entities[1].length = 4

\* An iteration of parse_tgspan's loop is about to resolve a Code span.
CodeStep ==
    /\ pc = "parse_tgspan"
    /\ frames # <<>>
    /\ Top(frames).span # <<>>
    /\ Head(Top(frames).span).kind = "Code"

\* C11: resolving Code(t) with the cursor at c appends t verbatim to the
\* text, appends exactly one entity of kind code with offset c and length
\* UTF16Length(t), moves the cursor to c + UTF16Length(t) and makes no
\* recursive call for the content.
C11_CodeIsVerbatimWithOneEntity ==
    [][CodeStep =>
          LET t == Head(Top(frames).span).text
              c == builder.offset
              n == encode_utf16_count(t)
          IN  /\ builder'.text = builder.text \o t
              /\ builder'.entities =
                    Append(builder.entities,
                           [offset |-> c, length |-> n, type |-> "code", url |-> None,
                            user |-> None, language |-> None, custom_emoji_id |-> None])
              /\ builder'.offset = c + n
              /\ Len(frames') = Len(frames)
              /\ pc' = "parse_tgspan"]_vars

\* The code span [ tick \* a ] has been resolved to the text "*a" under one
\* code entity.
C11_Witness ==
    /\ input = CODE_ESCAPED
    /\ pc = "Ok"
    /\ result[1].value.text = <<"*", "a">>
    /\ Len(result[1].value.entities) = 1
    /\ result[1].value.entities[1].type = "code"
    /\ result[1].value.entities[1].length = 2

\* An iteration of parse_tgspan's loop is about to resolve a Filling span.
FillingStep ==
    /\ pc = "parse_tgspan"
    /\ frames # <<>>
    /\ Top(frames).span # <<>>
    /\ Head(Top(frames).span).kind = "Filling"

\* What a step appended to the text buffer.
Appended == SubSeq(builder'.text, Len(builder.text) + 1, Len(builder'.text))

\* C12: resolving Filling(name) never fails; when name is not one of
\* username, first, last, mention, chatname, id, or when there is no context
\* message (whatever the name), the literal text "{" + name + "}" is appended,
\* the cursor advances by its UTF-16 length and no entity is created.
C12_FillingFallbackIsLiteral ==
    [][FillingStep =>
          LET name == Head(Top(frames).span).text
          IN  /\ pc' = "parse_tgspan"
              /\ result' = None
              /\ IsPrefix(builder.text, builder'.text)
              /\ (message = None \/ name \notin FillingNames) =>
                    /\ builder'.text = builder.text \o <<"{">> \o name \o <<"}">>
                    /\ builder'.entities = builder.entities
                    /\ builder'.offset =
                          builder.offset + encode_utf16_count(name) + 2]_vars

\* The unrecognized placeholder {a} has been compiled with a context message.
C12_Witness ==
    /\ input = <<"{", "a", "}">>
    /\ message # None
    /\ pc = "Ok"
    /\ result[1].value.text = <<"{", "a", "}">>
    /\ result[1].value.entities = <<>>
    /\ result[1].value.offset = 3

\* The number a string of decimal digits spells; -1 for any other string.
RECURSIVE DecimalValue(_)
DecimalValue(str) ==
    IF str = <<>> THEN -1
    ELSE LET units == CHOOSE d \in -1..9 :
                          IF \E k \in 0..9 : Digit(k) = Last(str)
                          THEN d >= 0 /\ Digit(d) = Last(str)
                          ELSE d = -1
             front == SubSeq(str, 1, Len(str) - 1)
         IN  IF units = -1 THEN -1
             ELSE IF front = <<>> THEN units
             ELSE IF DecimalValue(front) <= 0 THEN -1
             ELSE 10 * DecimalValue(front) + units

\* The text_mention entity of a user over (offset, length).
TextMentionEntity(offset, length, user) ==
    [offset |-> offset, length |-> length, type |-> "text_mention", url |-> None,
     user |-> Some(user), language |-> None, custom_emoji_id |-> None]

\* C13: with a context message that has a sender, Filling(name) at cursor c
\* appends: username -> the sender's display name under one text_mention
\* entity (offset c, length of the name, payload the sender); mention -> the
\* same with the first name; first -> the first name; last -> the last name
\* or nothing when absent; id -> the sender's id in decimal; chatname -> the
\* chat's display name; the last four create no entity, and in every case the
\* cursor advances by the UTF-16 length of the appended text.
C13_FillingWithSender ==
    [][(FillingStep /\ message # None /\ message[1].from # None
          /\ Head(Top(frames).span).text \in FillingNames) =>
          LET name == Head(Top(frames).span).text
              sender == message[1].from[1]
              c == builder.offset
              plain(str) ==
                  /\ builder'.text = builder.text \o str
                  /\ builder'.entities = builder.entities
              mentioned(str) ==
                  /\ builder'.text = builder.text \o str
                  /\ builder'.entities =
                        Append(builder.entities,
                               TextMentionEntity(c, encode_utf16_count(str), sender))
          IN  /\ IsPrefix(builder.text, builder'.text)
              /\ builder'.offset = c + encode_utf16_count(Appended)
              /\ CASE name = <<"u", "s", "e", "r", "n", "a", "m", "e">> ->
                          mentioned(sender.name_humanreadable)
                    [] name = <<"m", "e", "n", "t", "i", "o", "n">> ->
                          mentioned(sender.first_name)
                    [] name = <<"f", "i", "r", "s", "t">> -> plain(sender.first_name)
                    [] name = <<"l", "a", "s", "t">> ->
                          plain(IF sender.last_name = None THEN <<>>
                                ELSE sender.last_name[1])
                    [] name = <<"i", "d">> ->
                          /\ DecimalValue(Appended) = sender.id
                          /\ builder'.entities = builder.entities
                    [] name = <<"c", "h", "a", "t", "n", "a", "m", "e">> ->
                          plain(message[1].chat.name_humanreadable)]_vars

\* {username} has been compiled for a message with a sender: the display
\* name under a text_mention entity bound to the sender.
C13_Witness ==
    /\ input = <<"{", "u", "s", "e", "r", "n", "a", "m", "e", "}">>
    /\ message # None
    /\ message[1].from # None
    /\ pc = "Ok"
    /\ result[1].value.text = message[1].from[1].name_humanreadable
    /\ result[1].value.entities =
          <<TextMentionEntity(0, encode_utf16_count(result[1].value.text),
                              message[1].from[1])>>

\* The kind tags of an entity.
EntityKinds ==
    {"bold", "italic", "underline", "strikethrough", "spoiler", "code", "text_link",
     "text_mention", "pre", "custom_emoji", "hashtag", "cashtag", "bot_command",
     "email", "phone_number", "mention"}

\* C14: every entity a builder operation emits carries one of the sixteen
\* kind tags; bot_command() emits bot_command, and no operation, regular()
\* with a Markup made from plain text included, emits another or an empty tag.
C14_EntityKindsKnown ==
    \A i \in 1..Len(builder.entities) : builder.entities[i].type \in EntityKinds

(***************************************************************************)
(* Properties of the lexer (SpecLexer).                                    *)
(***************************************************************************)
\* The character sequences a token can be spelled by.
Lexemes(token) ==
    CASE token.k = "RawChar" -> {<<token.c>>, <<"\\", token.c>>}
      [] token.k = "DoubleUnderscore" -> {<<"_", "_">>}
      [] token.k = "Underscore" -> {<<"_">>}
      [] token.k = "DoubleBar" -> {<<"|", "|">>}
      [] token.k = "Tilde" -> {<<"~">>}
      [] token.k = "Tick" -> {<<"U+0060">>}
      [] token.k = "Star" -> {<<"*">>}
      [] token.k = "LSBracket" -> {<<"[">>}
      [] token.k = "RSBracket" -> {<<"]">>}
      [] token.k = "LParen" -> {<<"(">>}
      [] token.k = "RParen" -> {<<")">>}
      [] token.k = "LCurly" -> {<<"{">>}
      [] token.k = "RCurly" -> {<<"}">>}

\* C15: the lexer never fails and covers the whole input: each call of
\* next_token either returns a token spelled by exactly the characters the
\* call consumed, or signals the end of input when no character is left.
C15_LexerCoversInput ==
    [][pc = "next_token" =>
          \/ /\ pc' = "next_token"
             /\ Len(tokens') = Len(tokens) + 1
             /\ \E lexeme \in Lexemes(Last(tokens')) : tokenizer = lexeme \o tokenizer'
          \/ /\ pc' = "None"
             /\ tokens' = tokens
             /\ tokenizer = <<>>]_vars

\* C16: a backslash followed by a character c makes the lexer hand exactly
\* one token RawChar(c) to the parser, whatever c is, and no marker token:
\* both characters are consumed, no construct is opened or closed, and c ends
\* the literal text being collected (the last Raw span, or the raw content of
\* a code span, placeholder or url); a literal is refused only between the
\* hint and the url of a link.  So "\[ thing" parses to Raw("[ thing").
C16_EscapeIsLiteral ==
    /\ [][(pc = "tokenize" /\ Len(tokenizer) >= 2 /\ Head(tokenizer) = "\\") =>
            LET c == tokenizer[2]
                top == Top(parser')
            IN  \/ /\ pc' = "Err"
                   /\ Top(parser).kind = "LinkRSBracket"
                \/ /\ pc' = "tokenize"
                   /\ tokenizer' = SubSeq(tokenizer, 3, Len(tokenizer))
                   /\ Len(parser') = Len(parser)
                   /\ Pop(parser') = Pop(parser)
                   /\ IF top.kind \in {"Code", "Filling", "LinkLParen"}
                      THEN top.raw = Top(parser).raw \o <<c>>
                      ELSE /\ top.spans # <<>>
                           /\ Last(top.spans).kind = "Raw"
                           /\ Last(Last(top.spans).text) = c]_vars
    /\ [](input = ESCAPE /\ res # None =>
            res[1] = <<Raw(<<"[", " ", "t", "h", "i", "n", "g">>)>>)

\* The escaped bracket of "\[ thing" has just been taken as a literal.
C16_Witness ==
    /\ input = ESCAPE
    /\ pc = "tokenize"
    /\ tokenizer = <<" ", "t", "h", "i", "n", "g">>
    /\ parser = <<[kind |-> "input", spans |-> <<Raw(<<"[">>)>>, raw |-> <<>>]>>

\* n copies of a value.
Repeat(n, v) == [i \in 1..n |-> v]

\* The tokens of a run of n characters c ('_' or '|') that stands alone or
\* between literal characters "a": pairs first, then what is left over.
RunTokens(n, c) ==
    IF c = "_"
    THEN Repeat(n \div 2, Token("DoubleUnderscore")) \o Repeat(n % 2, Token("Underscore"))
    ELSE Repeat(n \div 2, Token("DoubleBar"))

\* C17: '_' and '|' are paired greedily from the left: '_' followed by '_'
\* is one DoubleUnderscore, any other '_' one Underscore; '|' followed by
\* '|' is one DoubleBar, any other '|' gives no token and the call goes on
\* with the next character.  A run of n underscores is therefore n div 2
\* DoubleUnderscore then n mod 2 Underscore, a run of n bars n div 2 DoubleBar.
C17_GreedyPairs ==
    /\ [][(pc = "next_token" /\ tokenizer # <<>> /\ Head(tokenizer) \in {"_", "|"}) =>
            LET c == Head(tokenizer)
                doubled == Len(tokenizer) >= 2 /\ tokenizer[2] = c
            IN  CASE doubled ->
                        /\ tokens' = Append(tokens, Token(IF c = "_" THEN "DoubleUnderscore"
                                                          ELSE "DoubleBar"))
                        /\ tokenizer' = SubSeq(tokenizer, 3, Len(tokenizer))
                  [] ~doubled /\ c = "_" ->
                        /\ tokens' = Append(tokens, Token("Underscore"))
                        /\ tokenizer' = Tail(tokenizer)
                  [] ~doubled /\ c = "|" ->
                        \/ /\ pc' = "None"
                           /\ tokens' = tokens
                        \/ /\ Len(tokens') = Len(tokens) + 1
                           /\ \E lexeme \in Lexemes(Last(tokens')) :
                                 tokenizer = <<"|">> \o lexeme \o tokenizer']_vars
    /\ [](pc = "None" =>
            \A p, q \in 0..Len(input), c \in {"_", "|"} :
                LET n == Len(input) - p - q
                IN  (n >= 1 /\ input = Repeat(p, "a") \o Repeat(n, c) \o Repeat(q, "a"))
                      => tokens = Repeat(p, RawChar("a")) \o RunTokens(n, c)
                                    \o Repeat(q, RawChar("a")))

\* Five underscores have been lexed: two pairs and a single.
C17_Witness ==
    /\ input = <<"_", "_", "_", "_", "_">>
    /\ pc = "None"
    /\ tokens = <<Token("DoubleUnderscore"), Token("DoubleUnderscore"), Token("Underscore")>>

\* The marker token of a character, RawChar for any other character.
MarkerOrLiteral(c) ==
    CASE c = "~" -> Token("Tilde")
      [] c = "U+0060" -> Token("Tick")
      [] c = "*" -> Token("Star")
      [] c = "[" -> Token("LSBracket")
      [] c = "]" -> Token("RSBracket")
      [] c = "(" -> Token("LParen")
      [] c = ")" -> Token("RParen")
      [] c = "{" -> Token("LCurly")
      [] c = "}" -> Token("RCurly")
      [] OTHER -> [k |-> "RawChar", c |-> c]

\* C18: for an input without backslash, underscore and bar the lexer emits
\* one token per character in input order, the marker token of each of
\* ~ tick * [ ] ( ) { } and RawChar(c) for every other c, then end of input.
C18_OneTokenPerCharacter ==
    (\A i \in 1..Len(input) : input[i] \notin {"\\", "_", "|"}) =>
        /\ Len(tokens) + Len(tokenizer) = Len(input)
        /\ \A i \in 1..Len(tokens) : tokens[i] = MarkerOrLiteral(input[i])
        /\ pc = "None" => Len(tokens) = Len(input)

\* "[*bold]" has been lexed to LSBracket, Star, b, o, l, d, RSBracket and
\* the end of input.
C18_Witness ==
    /\ input = MARKDOWN_SIMPLE
    /\ pc = "None"
    /\ tokens = <<Token("LSBracket"), Token("Star"), RawChar("b"), RawChar("o"),
                  RawChar("l"), RawChar("d"), Token("RSBracket")>>

(***************************************************************************)
(* Properties of the grammar (Spec).                                       *)
(***************************************************************************)
\* No two Raw spans are neighbours, at any depth, and no Raw span is empty.
RECURSIVE RawFolded(_)
RawFolded(spans) ==
    /\ \A i \in 1..Len(spans) :
          /\ spans[i].kind = "Raw" => spans[i].text # <<>>
          /\ (spans[i].kind = "Raw" /\ i < Len(spans)) => spans[i + 1].kind # "Raw"
          /\ spans[i].kind \in StyleKinds \cup {"Link"} => RawFolded(spans[i].spans)

\* The kinds of the spans of a list, in order.
Kinds(spans) == [i \in 1..Len(spans) |-> spans[i].kind]

\* C19: in an accepted source the literal characters that follow the closing
\* bracket of a formatted word become a Raw span of their own, the next
\* sibling of that word, and never part of the word; neighbouring literal
\* characters are folded into one Raw span, so a source without escapes and
\* bars is spelled back by its span list.  The source raw, [*bold], raw,
\* [link](url), raw has exactly three Raw spans at the top.
C19_TrailingRawIsSibling ==
    /\ [][(/\ pc = "tokenize"
           /\ pc' = "tokenize"
           /\ Top(parser).kind \in MainKinds
           /\ Top(parser).spans # <<>>
           /\ Last(Top(parser).spans).kind # "Raw"
           /\ next_token(tokenizer).token # None
           /\ next_token(tokenizer).token[1].k = "RawChar") =>
             /\ Len(parser') = Len(parser)
             /\ Top(parser').spans =
                   Append(Top(parser).spans, Raw(<<next_token(tokenizer).token[1].c>>))]_vars
    /\ [](res # None =>
            /\ RawFolded(res[1])
            /\ (\A i \in 1..Len(input) : input[i] \notin {"\\", "|"}) =>
                  Unparse(res[1]) = input
            /\ input = MARKDOWN_TEST =>
                  Kinds(res[1]) = <<"Raw", "Bold", "Raw", "Link", "Raw">>)

\* The source of test::parse_multi has been parsed: "thing" and its white
\* space is the Raw span after the Bold word, and the white space after the
\* link is the last Raw span.
C19_Witness ==
    /\ input = MARKDOWN_TEST
    /\ res # None
    /\ Len(res[1]) = 5
    /\ res[1][2] = Bold(<<Raw(<<"b", "o", "l", "d">>)>>)
    /\ res[1][3].kind = "Raw"
    /\ SubSeq(res[1][3].text, 10, 14) = <<"t", "h", "i", "n", "g">>
    /\ res[1][5].kind = "Raw"

\* C20: the empty source is legal: it parses to the empty span list and
\* from_murkdown("") returns a builder with empty text, no entity and
\* cursor 0.
C20_EmptyInputIsLegal ==
    input = EMPTY =>
        /\ pc # "Err"
        /\ res # None => res[1] = <<>>
        /\ result # None =>
              /\ result[1].ok
              /\ result[1].value = [text |-> <<>>, entities |-> <<>>, offset |-> 0]

\* from_murkdown("") has returned.
C20_Witness ==
    /\ input = EMPTY
    /\ pc = "Ok"
    /\ res = Some(<<>>)
    /\ result # None
    /\ result[1].ok

\* The tree of test::nested_bold.
NestedBoldTree ==
    <<Bold(<<Bold(<<Raw(<<"b", "o", "l", "d">>)>>),
             Raw(<<" ">>),
             Bold(<<Raw(<<"b", "o", "l", "d">>)>>)>>)>>

BoldEntity(offset, length) == set_type(MessageEntityBuilder_new(offset, length), "bold")

\* C21: a style span may hold a style span of its own kind.  A style word
\* that closes directly inside an open construct of the same kind is
\* accepted and joins it, and when its parse_tgspan call returns into a
\* waiting arm of the same kind it still gets an entity of its own.  The
\* source [*[*bold] [*bold]] parses to
\* Bold([Bold([Raw bold]), Raw " ", Bold([Raw bold])]) and resolves to the
\* text "bold bold" with the inner bold entities (0,4) and (5,4) followed by
\* the outer bold entity (0,9).
C21_NestedSameKind ==
    /\ [][(/\ pc = "tokenize"
           /\ Len(parser) > 1
           /\ Top(parser).kind \in StyleKinds
           /\ Top(Pop(parser)).kind = Top(parser).kind
           /\ Top(parser).spans # <<>>
           /\ next_token(tokenizer).token = Some(Token("RSBracket"))) =>
             /\ pc' = "tokenize"
             /\ parser' = SetTop(Pop(parser),
                                 [Top(Pop(parser)) EXCEPT !.spans =
                                     Append(@, [kind |-> Top(parser).kind,
                                                spans |-> Top(parser).spans])])]_vars
    /\ [][(/\ \E arm \in StyleKinds : Returns(arm)
           /\ Top(Pop(frames)).arm = Top(frames).arm) =>
             /\ Len(builder'.entities) = Len(builder.entities) + 1
             /\ IsPrefix(builder.entities, builder'.entities)
             /\ Last(builder'.entities).type = StyleType(Top(frames).arm)]_vars
    /\ [](input = NESTED_BOLD =>
            /\ pc # "Err"
            /\ res # None => res[1] = NestedBoldTree
            /\ result # None =>
                  /\ result[1].ok
                  /\ result[1].value.text = <<"b", "o", "l", "d", " ", "b", "o", "l", "d">>
                  /\ result[1].value.entities =
                        <<BoldEntity(0, 4), BoldEntity(5, 4), BoldEntity(0, 9)>>)

\* test::nested_bold has been compiled to the end.
C21_Witness ==
    /\ input = NESTED_BOLD
    /\ pc = "Ok"
    /\ res = Some(NestedBoldTree)
    /\ Len(result[1].value.entities) = 3
    /\ result[1].value.entities[3] = BoldEntity(0, 9)

FormattingKinds == StyleKinds \cup {"Link", "Code"}

\* The number of formatting nodes in a span list, at every depth.
RECURSIVE CountFormatting(_)
CountFormatting(spans) ==
    IF spans = <<>> THEN 0
    ELSE LET span == Head(spans)
         IN  (IF span.kind \in FormattingKinds THEN 1 ELSE 0)
             + (IF span.kind \in StyleKinds \cup {"Link"}
                THEN CountFormatting(span.spans) ELSE 0)
             + CountFormatting(Tail(spans))

EntityTypes(entities) == [i \in 1..Len(entities) |-> entities[i].type]

\* C22: resolved without a context message, a span list yields exactly one
\* entity per formatting node: every Code span and every return of a Bold,
\* Italic, Underline, Strikethrough, Spoiler or Link arm appends one entity,
\* a Raw or Filling span appends none, and the builder returned holds as
\* many entities as the tree has formatting nodes.  The fixture with one bold
\* word and one hyperlink among plain text yields exactly the two entities
\* bold and text_link.
C22_OneEntityPerFormattingNode ==
    /\ [][(/\ pc = "parse_tgspan"
           /\ message = None
           /\ builder' # builder
           /\ Len(frames') = Len(frames)) =>
             LET span == Head(Top(frames).span)
             IN  /\ span.kind \in {"Raw", "Filling"} =>
                        builder'.entities = builder.entities
                 /\ span.kind = "Code" =>
                        /\ Len(builder'.entities) = Len(builder.entities) + 1
                        /\ IsPrefix(builder.entities, builder'.entities)
                        /\ Last(builder'.entities).type = "code"]_vars
    /\ [][(/\ message = None
           /\ \E arm \in StyleKinds \cup {"Link"} : Returns(arm)) =>
             /\ Len(builder'.entities) = Len(builder.entities) + 1
             /\ IsPrefix(builder.entities, builder'.entities)
             /\ Last(builder'.entities).type =
                   (IF Top(frames).arm = "Link" THEN "text_link"
                    ELSE StyleType(Top(frames).arm))]_vars
    /\ []((pc = "Ok" /\ message = None) =>
            /\ Len(result[1].value.entities) = CountFormatting(res[1])
            /\ input = MARKDOWN_TEST =>
                  EntityTypes(result[1].value.entities) = <<"bold", "text_link">>)

\* The fixture of test::markup_builder has been resolved without context.
C22_Witness ==
    /\ input = MARKDOWN_TEST
    /\ message = None
    /\ pc = "Ok"
    /\ CountFormatting(res[1]) = 2
    /\ Len(result[1].value.entities) = 2

\* The length of a string in UTF-16 code units: 2 for a character outside
\* the BMP, 1 for any other.
RECURSIVE UTF16Length(_)
UTF16Length(str) ==
    IF str = <<>> THEN 0
    ELSE (IF Head(str) \in Astral THEN 2 ELSE 1) + UTF16Length(Tail(str))

\* Whether source = prefix + "[*" + t + "]" with plain prefix of k characters
\* and plain non-empty t.
IsPrefixedBold(source, k) ==
    /\ Len(source) >= k + 4
    /\ source[k + 1] = "["
    /\ source[k + 2] = "*"
    /\ source[Len(source)] = "]"
    /\ IsPlain(SubSeq(source, 1, k))
    /\ IsPlain(SubSeq(source, k + 3, Len(source) - 1))

C24_BuildReturnsAccumulated ==
    /\ [][op'.name \in {"build", "build_owned"} =>
            /\ result' = Some(<<builder.text, builder.entities>>)
            /\ builder' = builder]_vars
    /\ [][(op.name = "build" /\ op'.name \in {"build", "build_owned"}) =>
            result' = result]_vars
    /\ [][/\ IsPrefix(builder.entities, builder'.entities)
          /\ IsPrefix(builder.text, builder'.text)]_vars

\* build has been called twice in a row on a builder that holds text and an
\* entity.
C24_Witness ==
    /\ op.name = "build"
    /\ calls = MaxCalls + MaxBuilds
    /\ builder.entities # <<>>
    /\ builder.text # <<>>
    /\ result = Some(<<builder.text, builder.entities>>)

Finished(call) == call.pc \in {"Ok", "Err"}

RECURSIVE SpanText(_)
SpanText(span) ==
    LET RECURSIVE all(_)
        all(spans) == IF spans = <<>> THEN <<>> ELSE SpanText(Head(spans)) \o all(Tail(spans))
    IN  CASE span.kind = "Break" -> <<"\n">>
          [] span.kind \in {"Text", "Code"} -> span.text
          [] span.kind = "Link" -> span.hint
          [] span.kind = "Image" -> <<>>
          [] span.kind \in {"Emphasis", "Strong"} -> all(span.spans)

\* The number of spans in a Markdown span that carry an entity.
RECURSIVE SpanEntities(_)
SpanEntities(span) ==
    LET RECURSIVE all(_)
        all(spans) == IF spans = <<>> THEN 0 ELSE SpanEntities(Head(spans)) + all(Tail(spans))
    IN  CASE span.kind \in {"Code", "Link"} -> 1
          [] span.kind \in {"Emphasis", "Strong"} -> 1 + all(span.spans)
          [] OTHER -> 0

\* C27: on the Markdown path an Emphasis span yields exactly one italic
\* entity and a Strong span exactly one bold entity, pushed after the
\* entities of its children; its offset is the cursor before the children
\* and its length is the sum of the UTF-16 lengths of the text its children
\* emitted (Text, Break, Code, the hint of a Link, nested Emphasis and
\* Strong; an Image counts 0), which is also what parse_span returns.
C27_EmphasisAndStrong ==
    /\ builder.offset = UTF16Length(builder.text)
    /\ \A span \in MarkdownSpans :
          span.kind \in {"Emphasis", "Strong"} =>
              LET r == parse_span(builder, span)
                  entity == Last(r.builder.entities)
              IN  /\ r.builder.text = builder.text \o SpanText(span)
                  /\ IsPrefix(builder.entities, r.builder.entities)
                  /\ Len(r.builder.entities) = Len(builder.entities) + SpanEntities(span)
                  /\ entity.type = (IF span.kind = "Emphasis" THEN "italic" ELSE "bold")
                  /\ entity.offset = builder.offset
                  /\ entity.length = UTF16Length(SpanText(span))
                  /\ r.size = entity.length

\* A paragraph whose Emphasis holds a character outside the BMP, an image
\* and a Strong over inline code has been resolved behind other text.
C27_Witness ==
    /\ op.name = "parse_block"
    /\ op.block.kind = "Paragraph"
    /\ builder.text = <<"a", "U+1F600", "a">>
    /\ EntityTypes(builder.entities) = <<"code", "bold", "italic">>
    /\ builder.entities[2].offset = 3
    /\ builder.entities[2].length = 1
    /\ builder.entities[3].offset = 1
    /\ builder.entities[3].length = 3

RECURSIVE WithoutImages(_)
WithoutImages(spans) ==
    IF spans = <<>> THEN <<>>
    ELSE (IF Head(spans).kind = "Image" THEN <<>> ELSE <<Head(spans)>>)
         \o WithoutImages(Tail(spans))

\* C28: on the Markdown path a horizontal rule and an image leave the
\* builder as it is, and an image adds nothing to the length of the Emphasis
\* or Strong around it; a code block appends its literal text and exactly
\* one code entity that starts at the cursor and covers that text.
C28_HrImageCodeBlock ==
    /\ [](/\ parse_block(builder, [kind |-> "Hr"]) = builder
          /\ parse_span(builder, [kind |-> "Image"]) = Step(builder, 0)
          /\ \A span \in MarkdownSpans :
                span.kind \in {"Emphasis", "Strong"} =>
                    parse_span(builder, span) =
                        parse_span(builder, [span EXCEPT !.spans = WithoutImages(@)])
          /\ \A t \in {<<"a">>, <<"U+1F600", "a">>} :
                LET b == parse_block(builder, [kind |-> "CodeBlock", text |-> t])
                IN  /\ b.text = builder.text \o t
                    /\ b.offset = builder.offset + UTF16Length(t)
                    /\ b.entities =
                          Append(builder.entities,
                                 set_type(MessageEntityBuilder_new(builder.offset,
                                                                   UTF16Length(t)), "code")))
    /\ [][(pc = "parse_block" /\ blocks # <<>> /\ blocks' = Tail(blocks)) =>
            /\ Head(blocks).kind = "Hr" => builder' = builder
            /\ Head(blocks) = [kind |-> "Paragraph", spans |-> <<[kind |-> "Image"]>>] =>
                  builder' = builder
            /\ Head(blocks).kind = "CodeBlock" =>
                  /\ builder'.text = builder.text \o Head(blocks).text
                  /\ Len(builder'.entities) = Len(builder.entities) + 1
                  /\ Last(builder'.entities).type = "code"
                  /\ Last(builder'.entities).offset = builder.offset
                  /\ Last(builder'.entities).length = UTF16Length(Head(blocks).text)]_vars

\* A horizontal rule has been passed after a code block: the builder holds
\* the code block and nothing else.
C28_Witness ==
    /\ op.name = "parse_block"
    /\ op.block.kind = "Hr"
    /\ builder.text = <<"U+1F600", "a">>
    /\ builder.entities = <<set_type(MessageEntityBuilder_new(0, 3), "code")>>

\* C29: a callback registered with register_button fires at most once.  The
\* task that handles the first callback query carrying its data takes the
\* callback out of button_events in the step that calls it, so no other
\* task, later or at the same time, finds it; a query only fires a single
\* callback again after register_button has registered a new one.
C29_SingleFiresOnce ==
    /\ [](\A i, j \in 1..Len(fired) :
            (i # j /\ fired[i].kind = "single" /\ fired[j].kind = "single") =>
                fired[i].cb # fired[j].cb)
    /\ [][\A i \in 1..Len(tasks) :
            (tasks[i].pc = "single" /\ tasks'[i].pc = "single_await") =>
                /\ Len(fired') = Len(fired) + 1
                /\ <<tasks[i].data, Last(fired').cb>> \in button_events
                /\ Entries(button_events', tasks[i].data) = {}]_vars

\* Two queries carrying the same data have been handled while one single
\* callback was registered for it: the first is running the callback, the
\* second has gone past it without calling anything.
C29_Witness ==
    /\ Len(tasks) = 2
    /\ tasks[1].data = tasks[2].data
    /\ tasks[1].pc = "single_await"
    /\ tasks[2].pc \notin {"single", "single_await"}
    /\ registered = 1
    /\ Len(fired) = 1
    /\ fired[1].kind = "single"
    /\ fired[1].task = 1

\* Whether the multi callback of a task has returned Ok(v).
ReturnedOk(task, v) ==
    /\ task.returned # None
    /\ task.returned[1].ok
    /\ task.returned[1].value = v

\* C30: a callback registered with register_button_multi stays registered
\* and is called for every callback query carrying its data until a call
\* returns false: an entry leaves button_repeat only in the remove step of a
\* task whose call returned Ok(false), and a task whose call returned
\* Ok(true) does not remove.
C30_MultiRemovedAfterFalse ==
    [][\A i \in 1..Len(tasks) :
          /\ (tasks[i].pc = "remove" /\ tasks'[i].pc = "done") =>
                ReturnedOk(tasks[i], FALSE)
          /\ (tasks[i].pc = "multi_await" /\ ReturnedOk(tasks'[i], TRUE)) =>
                tasks'[i].pc = "done"]_vars

\* Whether the cursor of a builder is the UTF-16 length of its text and
\* every entity lies inside the text.
WellFormed(b) ==
    /\ b.offset = UTF16Length(b.text)
    /\ \A i \in 1..Len(b.entities) :
          /\ 0 <= b.entities[i].offset
          /\ 0 <= b.entities[i].length
          /\ b.entities[i].offset + b.entities[i].length <= UTF16Length(b.text)

StyleMarkerKinds == {"Star", "Tilde", "Tick", "Underscore", "DoubleUnderscore", "DoubleBar"}

\* Sources with an unescaped marker out of place: a star and an underscore
\* between letters, parentheses without a bracket group, a bare bracket
\* group at the end and before text, and a URL that holds an underscore.
MisplacedMarkers ==
    {<<"a", "*", "a">>, <<"a", "_", "a">>, <<"(", "a", ")">>, <<"[", "a", "]">>,
     <<"[", "a", "]", "a">>, <<"[", "a", "]", "(", "a", "_", "a", ")">>}

\* C33: an unescaped marker character is lexed as its marker token wherever
\* it stands, and the parser takes Star, Tilde, Tick, Underscore,
\* DoubleUnderscore and DoubleBar only directly after LSBracket, LParen only
\* directly after the RSBracket that closes an unmarked bracket group,
\* RParen only to close a non-empty link URL and RCurly only to close a
\* non-empty filling; anywhere else the token is a parse error.  So a*a,
\* a_a, (a), a bare [a] and a URL holding '_' are rejected, not read as
\* literal text.
C33_MisplacedMarkerIsError ==
    /\ [][(pc = "tokenize" /\ tokenizer # <<>> /\ next_token(tokenizer).token # None) =>
            LET tok == next_token(tokenizer).token[1]
                top == Top(parser)
                accepted == pc' # "Err"
            IN  /\ Head(tokenizer) \in MarkerChars \ {"_", "|"} =>
                      tok = MarkerOrLiteral(Head(tokenizer))
                /\ Head(tokenizer) = "_" => tok.k \in {"Underscore", "DoubleUnderscore"}
                /\ (Len(tokenizer) > 1 /\ Head(tokenizer) = "|" /\ tokenizer[2] = "|") =>
                      tok.k = "DoubleBar"
                /\ tok.k \in StyleMarkerKinds => (accepted <=> top.kind = "LSBracket")
                /\ tok.k = "LParen" => (accepted <=> top.kind = "LinkRSBracket")
                /\ tok.k = "RParen" =>
                      (accepted <=> (top.kind = "LinkLParen" /\ top.raw # <<>>))
                /\ tok.k = "RCurly" =>
                      (accepted <=> (top.kind = "Filling" /\ top.raw # <<>>))]_vars
    /\ [](input \in MisplacedMarkers => pc \in {"tokenize", "Err"})
    /\ []((pc = "Err" /\ input \in MisplacedMarkers) => result = Some(Err(MurkdownError)))

\* The link whose URL holds an underscore has been rejected.
C33_Witness ==
    /\ input = <<"[", "a", "]", "(", "a", "_", "a", ")">>
    /\ pc = "Err"
    /\ result = Some(Err(MurkdownError))

\* The offsets of an entity list are in ascending order.
SortedByOffset(entities) ==
    \A i \in 1..(Len(entities) - 1) : entities[i].offset <= entities[i + 1].offset

\* C34: entities are emitted in post-order.  The entity list only ever grows
\* at its end, and a formatting node's own entity is appended by the step
\* that returns from the node, after every step that resolved its children;
\* so the entity of an inner node precedes that of its enclosing node and
\* siblings keep source order.  For [*[*bold] [*bold]] the list is the two
\* inner entities followed by the enclosing one.
C34_PostOrder ==
    /\ [][pc = "parse_tgspan" => IsPrefix(builder.entities, builder'.entities)]_vars
    /\ [][\A arm \in StyleKinds \cup {"Link"} :
             Returns(arm) =>
                /\ Len(builder'.entities) = Len(builder.entities) + 1
                /\ Last(builder'.entities).type =
                       (IF arm = "Link" THEN "text_link" ELSE StyleType(arm))
                /\ Top(frames).span = <<>>]_vars
    /\ []((pc = "Ok" /\ input = NESTED_BOLD) =>
             result[1].value.entities = <<BoldEntity(0, 4), BoldEntity(5, 4), BoldEntity(0, 9)>>)

\* A resolved message whose entity list is not sorted by offset: the
\* enclosing entity at offset 0 follows an inner entity at offset 5.
C34_Witness ==
    /\ pc = "Ok"
    /\ input = NESTED_BOLD
    /\ Len(result[1].value.entities) = 3
    /\ ~SortedByOffset(result[1].value.entities)

SenderFillings == FillingNames \ {<<"c", "h", "a", "t", "n", "a", "m", "e">>}

\* C35: with a context message that has no sender, resolving {username},
\* {first}, {last}, {mention} or {id} appends no text, creates no entity and
\* leaves the cursor where it was (the literal "{name}" is not produced),
\* while {chatname} still appends the display name of the chat.
C35_NoSenderAppendsNothing ==
    [][(FillingStep /\ message # None /\ get_from(message[1]) = None) =>
          LET name == Head(Top(frames).span).text
              chat == name_humanreadable(get_chat(message[1]))
          IN  /\ pc' = "parse_tgspan"
              /\ name \in SenderFillings => builder' = builder
              /\ name \in FillingNames \ SenderFillings =>
                    /\ builder'.text = builder.text \o chat
                    /\ builder'.entities = builder.entities
                    /\ builder'.offset = builder.offset + encode_utf16_count(chat)]_vars

\* {mention} has been compiled with a message that has no sender: the result
\* is the empty builder.
C35_Witness ==
    /\ pc = "Ok"
    /\ input = <<"{", "m", "e", "n", "t", "i", "o", "n", "}">>
    /\ message # None
    /\ get_from(message[1]) = None
    /\ result[1].value = new

\* The sources of one formatted span with nothing inside, and what the
\* single entity of each is.
EmptySpanEntity(source) ==
    CASE source = <<"[", "*", "]">> -> BoldEntity(0, 0)
      [] source = <<"[", "_", "]">> -> set_type(MessageEntityBuilder_new(0, 0), "italic")
      [] source = <<"[", "_", "_", "]">> ->
            set_type(MessageEntityBuilder_new(0, 0), "underline")
      [] source = <<"[", "|", "|", "]">> ->
            set_type(MessageEntityBuilder_new(0, 0), "spoiler")
      [] source = <<"[", "]", "(", "u", ")">> ->
            set_url(set_type(MessageEntityBuilder_new(0, 0), "text_link"), <<"u">>)

EmptySpanSources ==
    {<<"[", "*", "]">>, <<"[", "_", "]">>, <<"[", "_", "_", "]">>, <<"[", "|", "|", "]">>,
     <<"[", "]", "(", "u", ")">>}

EmptyContentSources == {<<"[", "~", "]">>, <<"[", "U+0060", "]">>, <<"{", "}">>}

\* C36: [*], [_], [__], [||] and [](url) are accepted and resolve to exactly
\* one entity of length 0 at the cursor with no text appended (in general: a
\* Bold, Italic, Underline, Spoiler or Link node without children appends
\* one zero-length entity at the cursor and nothing else), whereas [~], an
\* empty code span and {} are parse errors.
C36_EmptySpans ==
    /\ []((input \in EmptySpanSources /\ pc \notin {"tokenize", "parse_tgspan"}) =>
             /\ pc = "Ok"
             /\ result[1].value.text = <<>>
             /\ result[1].value.offset = 0
             /\ result[1].value.entities = <<EmptySpanEntity(input)>>)
    /\ []((input \in EmptyContentSources /\ pc # "tokenize") =>
             /\ pc = "Err"
             /\ result = Some(Err(MurkdownError)))
    /\ [][\A arm \in (StyleKinds \ {"Strikethrough"}) \cup {"Link"} :
             (Returns(arm) /\ Top(frames).size = 0 /\ Top(frames).entry = builder.offset) =>
                /\ builder'.text = builder.text
                /\ builder'.offset = builder.offset
                /\ Len(builder'.entities) = Len(builder.entities) + 1
                /\ IsPrefix(builder.entities, builder'.entities)
                /\ Last(builder'.entities).offset = builder.offset
                /\ Last(builder'.entities).length = 0]_vars

\* The empty link has been resolved to a single zero-length text_link.
C36_Witness ==
    /\ pc = "Ok"
    /\ input = <<"[", "]", "(", "u", ")">>
    /\ result[1].value.text = <<>>
    /\ Len(result[1].value.entities) = 1
    /\ result[1].value.entities[1].length = 0

\* The number of span nodes in a span list, at every depth.
RECURSIVE CountNodes(_)
CountNodes(spans) ==
    IF spans = <<>> THEN 0
    ELSE 1 + (IF Head(spans).kind \in StyleKinds \cup {"Link"}
              THEN CountNodes(Head(spans).spans) ELSE 0)
           + CountNodes(Tail(spans))

\* The span nodes the resolver has still to visit: those left in the loops
\* of all the parse_tgspan calls on the stack.
RECURSIVE PendingNodes(_)
PendingNodes(fs) ==
    IF fs = <<>> THEN 0 ELSE CountNodes(Head(fs).span) + PendingNodes(Tail(fs))

IsSuffix(p, q) == Len(p) <= Len(q) /\ SubSeq(q, Len(q) - Len(p) + 1, Len(q)) = p

\* C37: from_murkdown terminates on every finite source.  Every call ends in
\* Ok or Err; a next_token call that returns a token has consumed at least
\* one character, and one that returns end-of-input has consumed all that
\* was left (a lone '|' and a trailing backslash included), so each
\* iteration of the token loop shortens the input and there are at most
\* length(source) of them; the resolver starts with every node of the tree
\* pending, each visit takes exactly one node off, a return takes none, and
\* none is pending when it returns.
C37_Terminates ==
    /\ <>(pc \in {"Ok", "Err"})
    /\ [](pc = "tokenize" =>
             LET nt == next_token(tokenizer)
             IN  /\ IsSuffix(nt.rest, tokenizer)
                 /\ nt.token # None => Len(nt.rest) < Len(tokenizer)
                 /\ nt.token = None => nt.rest = <<>>)
    /\ [](IsSuffix(tokenizer, input))
    /\ [][(pc = "tokenize" /\ pc' = "tokenize") => Len(tokenizer') < Len(tokenizer)]_vars
    /\ [][(pc = "tokenize" /\ pc' = "parse_tgspan") =>
             PendingNodes(frames') = CountNodes(res'[1])]_vars
    /\ [][(pc = "parse_tgspan" /\ pc' = "parse_tgspan") =>
             PendingNodes(frames') =
                PendingNodes(frames) - (IF Len(frames') < Len(frames) THEN 0 ELSE 1)]_vars
    /\ [][(pc = "parse_tgspan" /\ pc' = "Ok") => PendingNodes(frames) = 0]_vars

\* A source with a lone '|' and a trailing backslash has been compiled: the
\* call has returned with both characters consumed.
C37_Witness ==
    /\ input = <<"a", "|", "\\">>
    /\ pc = "Ok"
    /\ tokenizer = <<>>
    /\ result[1].value.text = <<"a">>

(***************************************************************************)
(* Properties of the admin cache (SpecAdmins).                             *)
(***************************************************************************)
ReturnedCachewait(call) ==
    /\ call.result # None
    /\ ~call.result[1].ok
    /\ call.result[1].value = "cachewait"

\* C31: manual refresh of a chat's admin cache is rate-limited to 10 minutes
\* between requests: a refresh_cached_admins call (on a group) that begins
\* while the chat's lock key is set sends no admin-list request to Telegram,
\* does not rewrite the cache and, once it has returned, has failed with the
\* "cachewait" error.
C31_RateLimited ==
    \A i \in DOMAIN refreshing :
        (refreshing[i].group /\ refreshing[i].locked) =>
            /\ ~refreshing[i].requested
            /\ ~refreshing[i].wrote
            /\ refreshing[i].pc = "done" => ReturnedCachewait(refreshing[i])

\* Two calls that ran concurrently have both found no lock key and both
\* rewritten the cache, at the same minute.
C31_BothRewrote ==
    /\ Len(refreshing) = 2
    /\ now = 0
    /\ refreshing[1].wrote
    /\ refreshing[2].wrote
    /\ ~refreshing[1].locked
    /\ ~refreshing[2].locked

\* What does hold: a call that finds the lock key writes nothing and fails
\* with "cachewait", and every call that has got past is_group_or_die sends
\* its request to Telegram before it looks at the lock key.
C31_LockCheckedAfterRequest ==
    /\ \A i \in DOMAIN refreshing :
          /\ refreshing[i].pc \in {"exists", "try_pipe", "get_chat_lang"} =>
                refreshing[i].requested
          /\ refreshing[i].pc = "get_chat_lang" => ~refreshing[i].wrote
          /\ ReturnedCachewait(refreshing[i]) =>
                (refreshing[i].requested /\ ~refreshing[i].wrote)
    /\ tg.requests = Cardinality({i \in DOMAIN refreshing : refreshing[i].requested})

(***************************************************************************)
(* Properties of the permission checks (SpecPermissions).                  *)
(***************************************************************************)
\* Whether one permission is granted to the sender of the check, read off
\* the admin cache and the configuration.
Granted(field) ==
    LET user == check[1].from[1]
        member == check[1].member
    IN  CASE field = "is_sudo" -> user \in CONFIG.sudo_users
          [] field = "is_support" -> user \in CONFIG.sudo_users \cup CONFIG.support_users
          [] OTHER ->
                /\ member # None
                /\ \/ member[1].status = "ChatMemberOwner"
                   \/ /\ member[1].status = "ChatMemberAdministrator"
                      /\ IF field = "can_pin_messages"
                         THEN member[1].rights.can_pin_messages = Some(TRUE)
                         ELSE member[1].rights[field]

\* The human readable names of the permissions.
PermissionName(field) ==
    CASE field = "can_manage_chat" -> "CanManageChat"
      [] field = "can_restrict_members" -> "CanRestrictMembers"
      [] field = "can_delete_messages" -> "CanDeleteMessasges"
      [] field = "can_change_info" -> "CanChangeInfo"
      [] field = "can_promote_members" -> "CanPromoteMembers"
      [] field = "can_pin_messages" -> "CanPinMessages"
      [] field = "is_sudo" -> "Sudo"
      [] field = "is_support" -> "Support"

\* The check has run to its decision: it was made in a supergroup, the
\* message has a sender and the admin cache has answered.
Decided ==
    /\ check # None
    /\ check[1].pc = "done"
    /\ check[1].permission # None

C38_SupportDenied ==
    /\ Decided
    /\ check[1].from = Some(2)
    /\ CONFIG.support_users = {2}
    /\ check[1].member = None
    /\ check[1].func = <<"can_manage_chat">>
    /\ check[1].result =
          Some(Err(<<"Permission denied. User missing ", "CanManageChat">>))

====
